---- MODULE Spec2Model ----
(***************************************************************************)
(* Query-time decision engine of the RAG compliance service:               *)
(* rag/langchain_orchestrator.py (feature extraction, answerability        *)
(* validation, hybrid retrieval, answer_query, the lazily built singleton) *)
(* and rag/report_generator.py (the report pipeline).                      *)
(*                                                                         *)
(* Python str values are modelled as sequences of one-character strings,   *)
(* so that substring tests, case folding, stripping and the regular        *)
(* expressions of the source are computed character by character.          *)
(***************************************************************************)
EXTENDS Integers, Sequences, FiniteSets, TLC

(***************************************************************************)
(* Python built-ins used by the source                                     *)
(***************************************************************************)

\* Python's None. No str of the model equals it: every element of a str is
\* one character long.
None == <<"None">>

\* Truthiness of an Optional[str] / list: None and the empty value are falsy.
Truthy(x) == x # None /\ x # <<>>

UpperChars == <<"A", "B", "C", "D", "E", "F", "G", "H", "I", "J", "K", "L", "M", "N", "O", "P", "Q",
      "R", "S", "T", "U", "V", "W", "X", "Y", "Z">>

LowerChars == <<"a", "b", "c", "d", "e", "f", "g", "h", "i", "j", "k", "l", "m", "n", "o", "p", "q",
      "r", "s", "t", "u", "v", "w", "x", "y", "z">>

DigitChars == <<"0", "1", "2", "3", "4", "5", "6", "7", "8", "9">>

lower_map ==
    [c \in {UpperChars[k] : k \in 1..26} |->
        LowerChars[CHOOSE k \in 1..26 : UpperChars[k] = c]]

\* str.lower()
Lower(s) == [i \in 1..Len(s) |-> IF s[i] \in DOMAIN lower_map THEN lower_map[s[i]] ELSE s[i]]

\* the characters str.strip() removes and \s matches
IsSpace(c) == c \in {" ", "\t", "\n", "\r", "x0b", "x0c", "x1c", "x1d", "x1e", "x1f"}

\* \d
IsDigit(c) == c \in {DigitChars[k] : k \in 1..10}

\* \w
IsWordChar(c) ==
    \/ c \in {LowerChars[k] : k \in 1..26}
    \/ c \in {UpperChars[k] : k \in 1..26}
    \/ IsDigit(c)
    \/ c = "_"

\* str.strip()
Strip(s) ==
    LET keep == {i \in 1..Len(s) : ~IsSpace(s[i])}
    IN  IF keep = {} THEN <<>>
        ELSE LET a == CHOOSE i \in keep : \A j \in keep : i <= j
                 b == CHOOSE i \in keep : \A j \in keep : i >= j
             IN  SubSeq(s, a, b)

\* p in s
Contains(s, p) == \E i \in 1..(Len(s) - Len(p) + 1) : SubSeq(s, i, i + Len(p) - 1) = p

\* sep.join(parts)
RECURSIVE Join(_, _)
Join(sep, parts) ==
    IF parts = <<>> THEN <<>>
    ELSE IF Len(parts) = 1 THEN parts[1]
    ELSE parts[1] \o sep \o Join(sep, Tail(parts))

\* dict.get(key, default): a dict is a record holding the keys that are present
Get(meta, key, default) == IF key \in DOMAIN meta THEN meta[key] ELSE default

(***************************************************************************)
(* Regular-expression primitives (re.search, left-most match)              *)
(***************************************************************************)

\* \b before position i (1..Len(s)+1)
WordBoundary(s, i) ==
    LET before == i > 1 /\ IsWordChar(s[i - 1])
        after  == i <= Len(s) /\ IsWordChar(s[i])
    IN  before # after

\* the position after a maximal run of \s starting at j
SkipSpaces(s, j) ==
    CHOOSE k \in j..(Len(s) + 1) :
        /\ \A m \in j..(k - 1) : IsSpace(s[m])
        /\ (k = Len(s) + 1 \/ ~IsSpace(s[k]))

\* \d{4} at position j
Digits4At(s, j) == j + 3 <= Len(s) /\ \A m \in j..(j + 3) : IsDigit(s[m])

\* a literal (already lower-case) at position i, ignoring case
LiteralAt(s, i, lit) ==
    /\ i + Len(lit) - 1 <= Len(s)
    /\ Lower(SubSeq(s, i, i + Len(lit) - 1)) = lit

\* the least element of a non-empty set of positions
Leftmost(S) == CHOOSE i \in S : \A j \in S : i <= j

\* re.search(r'\bword\b', s, re.IGNORECASE) is not None
SearchWord(s, word) ==
    \E i \in 1..(Len(s) - Len(word) + 1) :
        /\ LiteralAt(s, i, word)
        /\ WordBoundary(s, i)
        /\ WordBoundary(s, i + Len(word))

(***************************************************************************)
(* Query feature extraction                                                *)
(***************************************************************************)

\* r'FY\s*(\d{4})': where group 1 starts for a match beginning at i, 0 if none
FyPatternGroup(s, i) ==
    IF LiteralAt(s, i, <<"f", "y">>) /\ Digits4At(s, SkipSpaces(s, i + 2))
    THEN SkipSpaces(s, i + 2) ELSE 0

\* r'fiscal\s+year\s+(\d{4})'
FiscalYearPatternGroup(s, i) ==
    IF /\ LiteralAt(s, i, <<"f", "i", "s", "c", "a", "l">>)
       /\ SkipSpaces(s, i + 6) > i + 6
       /\ LiteralAt(s, SkipSpaces(s, i + 6), <<"y", "e", "a", "r">>)
       /\ SkipSpaces(s, SkipSpaces(s, i + 6) + 4) > SkipSpaces(s, i + 6) + 4
       /\ Digits4At(s, SkipSpaces(s, SkipSpaces(s, i + 6) + 4))
    THEN SkipSpaces(s, SkipSpaces(s, i + 6) + 4) ELSE 0

\* r'\b(20\d{2})\b' and r'\b(19\d{2})\b'
BareYearPatternGroup(s, i, century) ==
    IF /\ LiteralAt(s, i, century)
       /\ Digits4At(s, i)
       /\ WordBoundary(s, i)
       /\ WordBoundary(s, i + 4)
    THEN i ELSE 0

_extract_fiscal_year(query) ==
    LET pos  == 1..Len(query)
        m1   == {i \in pos : FyPatternGroup(query, i) # 0}
        m2   == {i \in pos : FiscalYearPatternGroup(query, i) # 0}
        m3   == {i \in pos : BareYearPatternGroup(query, i, <<"2", "0">>) # 0}
        m4   == {i \in pos : BareYearPatternGroup(query, i, <<"1", "9">>) # 0}
        g    == IF m1 # {} THEN FyPatternGroup(query, Leftmost(m1))
                ELSE IF m2 # {} THEN FiscalYearPatternGroup(query, Leftmost(m2))
                ELSE IF m3 # {} THEN Leftmost(m3)
                ELSE IF m4 # {} THEN Leftmost(m4)
                ELSE 0
    IN  IF g = 0 THEN None ELSE <<"F", "Y">> \o SubSeq(query, g, g + 3)

entity_mappings ==
    << [key |-> <<"o", "r", "a", "c", "l", "e", " ", "f", "i", "n", "a", "n", "c", "i", "a", "l",
          " ", "s", "e", "r", "v", "i", "c", "e", "s">>, value |-> <<"O", "r", "a", "c", "l", "e",
          " ", "F", "i", "n", "a", "n", "c", "i", "a", "l", " ", "S", "e", "r", "v", "i", "c", "e",
          "s", " ", "S", "o", "f", "t", "w", "a", "r", "e", " ", "L", "t", "d">>],
       [key |-> <<"o", "r", "a", "c", "l", "e", " ", "f", "i", "n", "a", "n", "c", "i", "a",
             "l">>, value |-> <<"O", "r", "a", "c", "l", "e", " ", "F", "i", "n", "a", "n", "c",
             "i", "a", "l", " ", "S", "e", "r", "v", "i", "c", "e", "s", " ", "S", "o", "f", "t",
             "w", "a", "r", "e", " ", "L", "t", "d">>],
       [key |-> <<"o", "f", "s", "s">>, value |-> <<"O", "r", "a", "c", "l", "e", " ", "F", "i",
             "n", "a", "n", "c", "i", "a", "l", " ", "S", "e", "r", "v", "i", "c", "e", "s", " ",
             "S", "o", "f", "t", "w", "a", "r", "e", " ", "L", "t", "d">>] >>

_extract_entity_from_query(query) ==
    LET query_lower == Lower(query)
        hits == {k \in 1..Len(entity_mappings) : Contains(query_lower, entity_mappings[k].key)}
    IN  IF hits = {} THEN None ELSE entity_mappings[Leftmost(hits)].value

metric_mapping ==
    << [key |-> <<"r", "e", "v", "e", "n", "u", "e">>, keywords |-> <<<<"r", "e", "v", "e", "n",
          "u", "e">>, <<"s", "a", "l", "e", "s">>, <<"t", "u", "r", "n", "o", "v", "e", "r">>>>],
       [key |-> <<"n", "e", "t", "_", "i", "n", "c", "o", "m", "e">>,
        keywords |-> <<<<"n", "e", "t", " ", "i", "n", "c", "o", "m", "e">>, <<"n", "e", "t", " ",
              "p", "r", "o", "f", "i", "t">>, <<"p", "r", "o", "f", "i", "t">>, <<"e", "a", "r",
              "n", "i", "n", "g", "s">>, <<"p", "a", "t">>>>],
       [key |-> <<"e", "b", "i", "t", "d", "a">>, keywords |-> <<<<"e", "b", "i", "t", "d",
             "a">>>>],
       [key |-> <<"g", "r", "o", "s", "s", "_", "p", "r", "o", "f", "i",
             "t">>, keywords |-> <<<<"g", "r", "o", "s", "s", " ", "p", "r", "o", "f", "i",
             "t">>>>],
       [key |-> <<"o", "p", "e", "r", "a", "t", "i", "n", "g", "_", "i", "n", "c", "o", "m", "e">>,
        keywords |-> <<<<"o", "p", "e", "r", "a", "t", "i", "n", "g", " ", "i", "n", "c", "o", "m",
              "e">>, <<"o", "p", "e", "r", "a", "t", "i", "n", "g", " ", "p", "r", "o", "f", "i",
              "t">>, <<"e", "b", "i", "t">>>>],
       [key |-> <<"a", "s", "s", "e", "t", "s">>, keywords |-> <<<<"a", "s", "s", "e", "t",
             "s">>, <<"t", "o", "t", "a", "l", " ", "a", "s", "s", "e", "t", "s">>>>],
       [key |-> <<"e", "q", "u", "i", "t", "y">>, keywords |-> <<<<"e", "q", "u", "i", "t",
             "y">>, <<"t", "o", "t", "a", "l", " ", "e", "q", "u", "i", "t", "y">>>>] >>

\* any(kw in query_lower for kw in keywords)
AnyKeyword(text_lower, keywords) ==
    \E k \in 1..Len(keywords) : Contains(text_lower, keywords[k])

RECURSIVE MetricsFrom(_, _)
MetricsFrom(query_lower, k) ==
    IF k > Len(metric_mapping) THEN <<>>
    ELSE (IF AnyKeyword(query_lower, metric_mapping[k].keywords)
          THEN <<metric_mapping[k].key>> ELSE <<>>) \o MetricsFrom(query_lower, k + 1)

_extract_metrics_from_query(query) == MetricsFrom(Lower(query), 1)

numeric_words ==
    <<<<"t", "o", "t", "a", "l">>, <<"e", "x", "a", "c", "t">>, <<"r", "a", "t", "e">>, <<"v", "a",
          "l", "u", "e">>, <<"r", "e", "v", "e", "n", "u", "e">>, <<"a", "m", "o", "u", "n",
          "t">>, <<"n", "u", "m", "b", "e", "r">>, <<"c", "o", "u", "n", "t">>>>

numeric_score(query) ==
    LET query_lower == Lower(query)
    IN  (IF \E i \in 1..Len(query_lower) : IsDigit(query_lower[i]) THEN 1 ELSE 0)
      + (IF Contains(query_lower, <<"%">>) THEN 1 ELSE 0)
      + (IF Contains(query_lower, <<"$">>) THEN 1 ELSE 0)
      + Cardinality({k \in 1..Len(numeric_words) : SearchWord(query_lower, numeric_words[k])})

_detect_numeric_intent(query) == numeric_score(query) >= 2

report_keywords ==
    <<<<"r", "e", "p", "o", "r", "t">>, <<"i", "n", "v", "e", "s", "t", "m", "e", "n", "t">>, <<"a",
          "n", "a", "l", "y", "s", "i", "s">>, <<"r", "e", "s", "e", "a", "r", "c", "h">>, <<"v",
          "a", "l", "u", "a", "t", "i", "o", "n">>, <<"r", "e", "c", "o", "m", "m", "e", "n", "d",
          "a", "t", "i", "o", "n">>,
      <<"p", "d", "f">>, <<"e", "q", "u", "i", "t", "y", " ", "r", "e", "s", "e", "a", "r", "c",
            "h">>, <<"f", "i", "n", "a", "n", "c", "i", "a", "l", " ", "a", "n", "a", "l", "y", "s",
            "i", "s">>, <<"l", "o", "n", "g", " ", "f", "o", "r", "m", "a", "t">>,
      <<"d", "e", "t", "a", "i", "l", "e", "d", " ", "a", "n", "a", "l", "y", "s", "i",
            "s">>, <<"g", "e", "n", "e", "r", "a", "t", "e", " ", "r", "e", "p", "o", "r",
            "t">>, <<"c", "r", "e", "a", "t", "e", " ", "r", "e", "p", "o", "r", "t">>>>

is_report_request(text) == AnyKeyword(Lower(text), report_keywords)

(***************************************************************************)
(* Input normalization (api.py)                                            *)
(***************************************************************************)

\* Characters that a TLA+ string cannot hold are written by name: "backtick" is
\* U+0060 and "x01" is U+0001, likewise for the other control characters.
Backtick == "backtick"

\* [\x00-\x08\x0B\x0C\x0E-\x1F]
ControlChars ==
    {"x00", "x01", "x02", "x03", "x04", "x05", "x06", "x07", "x08", "x0b", "x0c",
     "x0e", "x0f", "x10", "x11", "x12", "x13", "x14", "x15", "x16", "x17", "x18",
     "x19", "x1a", "x1b", "x1c", "x1d", "x1e", "x1f"}

\* the greatest element of a non-empty set of positions
Rightmost(S) == CHOOSE i \in S : \A j \in S : i >= j

\* re.sub over the matches E: E[i] is the position after the match that starts at i,
\* 0 when the pattern does not match there; matches are taken left to right and do not
\* overlap
RECURSIVE Replace(_, _, _, _)
Replace(s, E, repl, i) ==
    IF i > Len(s) THEN <<>>
    ELSE IF E[i] # 0 THEN repl \o Replace(s, E, repl, E[i])
    ELSE <<s[i]>> \o Replace(s, E, repl, i + 1)

\* re.sub(pattern, repl, s) for a pattern given by where its match at i ends
Sub(s, E, repl) == Replace(s, E, repl, 1)

\* the position after a maximal run of characters of the class starting at j
RunEnd(s, j, class) ==
    CHOOSE k \in j..(Len(s) + 1) :
        /\ \A m \in j..(k - 1) : s[m] \in class
        /\ (k = Len(s) + 1 \/ s[k] \notin class)

\* the position after a maximal run of \w starting at j
SkipWord(s, j) ==
    CHOOSE k \in j..(Len(s) + 1) :
        /\ \A m \in j..(k - 1) : IsWordChar(s[m])
        /\ (k = Len(s) + 1 \/ ~IsWordChar(s[k]))

\* \s*=\s*["\']? at position j: the position after it, 0 if it does not match
AssignmentTail(s, j) ==
    LET eq == SkipSpaces(s, j)
    IN  IF eq <= Len(s) /\ s[eq] = "="
        THEN LET q == SkipSpaces(s, eq + 1)
             IN  IF q <= Len(s) /\ s[q] \in {"\"", "'"} THEN q + 1 ELSE q
        ELSE 0

declaration_keywords == <<<<"c", "o", "n", "s", "t">>, <<"l", "e", "t">>, <<"v", "a", "r">>>>

\* r'\b(const|let|var)\s+\w+\s*=\s*["\']?', re.IGNORECASE
DeclarationEnd(s, i) ==
    LET hits == {k \in 1..Len(declaration_keywords) : LiteralAt(s, i, declaration_keywords[k])}
    IN  IF ~WordBoundary(s, i) \/ hits = {} THEN 0
        ELSE LET j == i + Len(declaration_keywords[Leftmost(hits)])
                 w == SkipSpaces(s, j)
                 e == SkipWord(s, w)
             IN  IF w > j /\ e > w THEN AssignmentTail(s, e) ELSE 0

\* r'\bsystemPrompt\s*=\s*["\']?', re.IGNORECASE
SystemPromptEnd(s, i) ==
    IF WordBoundary(s, i) /\ LiteralAt(s, i, <<"s", "y", "s", "t", "e", "m", "p", "r", "o", "m",
          "p", "t">>)
    THEN AssignmentTail(s, i + 12) ELSE 0

\* r'\bprompt\s*=\s*["\']?', re.IGNORECASE
PromptEnd(s, i) ==
    IF WordBoundary(s, i) /\ LiteralAt(s, i, <<"p", "r", "o", "m", "p", "t">>)
    THEN AssignmentTail(s, i + 6) ELSE 0

\* r'\$\{[^}]*\}'
PlaceholderEnd(s, i) ==
    LET closing == {k \in (i + 2)..Len(s) : s[k] = "}"}
    IN  IF i + 1 <= Len(s) /\ s[i] = "$" /\ s[i + 1] = "{" /\ closing # {}
        THEN Leftmost(closing) + 1 ELSE 0

\* r';\s*\n': the \s* run is given back up to its last newline
SemicolonNewlineEnd(s, i) ==
    LET newlines == {k \in (i + 1)..(SkipSpaces(s, i + 1) - 1) : s[k] = "\n"}
    IN  IF s[i] = ";" /\ newlines # {} THEN Rightmost(newlines) + 1 ELSE 0

\* r';\s*$', re.MULTILINE: $ is the end of the text or the position before a newline
SemicolonEndOfLineEnd(s, i) ==
    LET ends == {p \in (i + 1)..SkipSpaces(s, i + 1) : p = Len(s) + 1 \/ s[p] = "\n"}
    IN  IF s[i] = ";" /\ ends # {} THEN Rightmost(ends) ELSE 0

console_calls == <<<<"c", "o", "n", "s", "o", "l", "e", ".", "l", "o", "g">>, <<"c", "o", "n", "s",
      "o", "l", "e", ".", "e", "r", "r", "o", "r">>>>

\* r'\b(console\.log|console\.error)\s*\([^)]*\)', re.IGNORECASE
ConsoleCallEnd(s, i) ==
    LET hits == {k \in 1..Len(console_calls) : LiteralAt(s, i, console_calls[k])}
    IN  IF ~WordBoundary(s, i) \/ hits = {} THEN 0
        ELSE LET open == SkipSpaces(s, i + Len(console_calls[Leftmost(hits)]))
                 closing == {k \in (open + 1)..Len(s) : s[k] = ")"}
             IN  IF open <= Len(s) /\ s[open] = "(" /\ closing # {}
                 THEN Leftmost(closing) + 1 ELSE 0

\* r'\n\s*\n\s*\n+': three newlines or more in one run of \s, up to the last of them
BlankLinesEnd(s, i) ==
    LET newlines == {k \in i..(SkipSpaces(s, i) - 1) : s[k] = "\n"}
    IN  IF s[i] = "\n" /\ Cardinality(newlines) >= 3 THEN Rightmost(newlines) + 1 ELSE 0

\* r' {3,}'
ThreeSpacesEnd(s, i) ==
    IF RunEnd(s, i, {" "}) >= i + 3 THEN RunEnd(s, i, {" "}) ELSE 0

\* r'[ \t]+'
BlanksEnd(s, i) ==
    IF s[i] \in {" ", "\t"} THEN RunEnd(s, i, {" ", "\t"}) ELSE 0

\* r'\n[ \t]+'
NewlineBlanksEnd(s, i) ==
    IF s[i] = "\n" /\ RunEnd(s, i + 1, {" ", "\t"}) > i + 1
    THEN RunEnd(s, i + 1, {" ", "\t"}) ELSE 0

\* r'[ \t]+\n'
BlanksNewlineEnd(s, i) ==
    LET e == RunEnd(s, i, {" ", "\t"})
    IN  IF e > i /\ e <= Len(s) /\ s[e] = "\n" THEN e + 1 ELSE 0

\* s.replace(old, new) for one-character old
ReplaceChar(s, old, new) == Sub(s, [i \in 1..Len(s) |-> IF s[i] = old THEN i + 1 ELSE 0], new)

\* s.split('\n')
RECURSIVE Split(_, _)
Split(s, sep) ==
    LET at == {i \in 1..Len(s) : s[i] = sep}
    IN  IF at = {} THEN <<s>>
        ELSE <<SubSeq(s, 1, Leftmost(at) - 1)>> \o Split(SubSeq(s, Leftmost(at) + 1, Len(s)), sep)

\* '\n'.join([line.strip() for line in s.split('\n')])
StripLines(s) ==
    LET lines == Split(s, "\n")
    IN  Join(<<"\n">>, [k \in 1..Len(lines) |-> Strip(lines[k])])

\* the substitutions of normalize_user_input, in the order of the source
LastStep == 18

NormalizationStep(k, s) ==
    CASE k = 1  -> Strip(s)
      [] k = 2  -> SelectSeq(s, LAMBDA c : c \notin ControlChars)
      [] k = 3  -> Sub(s, [i \in 1..Len(s) |-> DeclarationEnd(s, i)], <<>>)
      [] k = 4  -> Sub(s, [i \in 1..Len(s) |-> SystemPromptEnd(s, i)], <<>>)
      [] k = 5  -> Sub(s, [i \in 1..Len(s) |-> PromptEnd(s, i)], <<>>)
      [] k = 6  -> ReplaceChar(s, Backtick, <<>>)
      [] k = 7  -> Sub(s, [i \in 1..Len(s) |-> PlaceholderEnd(s, i)], <<>>)
      [] k = 8  -> Sub(s, [i \in 1..Len(s) |-> SemicolonNewlineEnd(s, i)], <<"\n">>)
      [] k = 9  -> Sub(s, [i \in 1..Len(s) |-> SemicolonEndOfLineEnd(s, i)], <<>>)
      [] k = 10 -> Sub(s, [i \in 1..Len(s) |-> ConsoleCallEnd(s, i)], <<>>)
      [] k = 11 -> Sub(s, [i \in 1..Len(s) |-> BlankLinesEnd(s, i)], <<"\n", "\n">>)
      [] k = 12 -> Sub(s, [i \in 1..Len(s) |-> ThreeSpacesEnd(s, i)], <<" ">>)
      [] k = 13 -> ReplaceChar(s, "\t", <<" ">>)
      [] k = 14 -> StripLines(s)
      [] k = 15 -> Strip(s)
      [] k = 16 -> Sub(s, [i \in 1..Len(s) |-> BlanksEnd(s, i)], <<" ">>)
      [] k = 17 -> Sub(s, [i \in 1..Len(s) |-> NewlineBlanksEnd(s, i)], <<"\n">>)
      [] k = 18 -> Sub(s, [i \in 1..Len(s) |-> BlanksNewlineEnd(s, i)], <<"\n">>)

\* normalized after the steps k..LastStep, each applied to the value of the one before
RECURSIVE NormalizeFrom(_, _)
NormalizeFrom(k, s) ==
    IF k > LastStep THEN s
    ELSE CHOOSE normalized \in {NormalizeFrom(k + 1, t) : t \in {NormalizationStep(k, s)}} : TRUE

normalize_user_input(raw_input) ==
    IF raw_input = <<>> THEN <<>>
    ELSE CHOOSE result \in
            { IF normalized = <<>> \/ Len(Strip(normalized)) < 1
              THEN Strip(raw_input)
              ELSE Strip(normalized) : normalized \in {NormalizeFrom(1, raw_input)} } : TRUE

(***************************************************************************)
(* Answerability validation                                                *)
(***************************************************************************)

\* the elif chain of the metric loop for one requested metric
MetricHit(metric, doc_lower) ==
    IF metric = <<"r", "e", "v", "e", "n", "u", "e">> /\ Contains(doc_lower, <<"r", "e", "v", "e",
          "n", "u", "e">>) THEN TRUE
    ELSE IF metric = <<"n", "e", "t", "_", "i", "n", "c", "o", "m", "e">>
            /\ (Contains(doc_lower, <<"n", "e", "t", " ", "i", "n", "c", "o", "m",
                  "e">>) \/ Contains(doc_lower, <<"n", "e", "t", " ", "p", "r", "o", "f", "i",
                  "t">>))
         THEN TRUE
    ELSE Contains(doc_lower, metric)

\* entity_match of one (doc, meta) pair; counted only when an entity is requested
EntityMatch(requested_entity, meta) ==
    LET doc_entity == Get(meta, "company", <<>>)
    IN  IF Truthy(requested_entity)
        THEN Truthy(doc_entity) /\ Contains(Lower(doc_entity), Lower(requested_entity))
        ELSE TRUE

\* YearMatch that accepts a fiscal_year that merely contains the requested year
YearMatchPartial(requested_year, meta) ==
    LET doc_year == Get(meta, "fiscal_year", <<>>)
    IN  IF Truthy(requested_year)
        THEN Truthy(doc_year) /\ Contains(Lower(doc_year), Lower(requested_year))
        ELSE TRUE

\* year_match of one (doc, meta) pair
YearMatch(requested_year, meta) ==
    LET doc_year == Get(meta, "fiscal_year", <<>>)
    IN  IF Truthy(requested_year)
        THEN Truthy(doc_year) /\ Lower(requested_year) = Lower(doc_year)
        ELSE TRUE

\* MetricMatch that does not let a chunk pass when no metric was requested
MetricMatchOnlyRequested(requested_metrics, doc) ==
    /\ Truthy(requested_metrics)
    /\ \E k \in 1..Len(requested_metrics) : MetricHit(requested_metrics[k], Lower(doc))

\* metric_match of one (doc, meta) pair
MetricMatch(requested_metrics, doc) ==
    IF Truthy(requested_metrics)
    THEN \E k \in 1..Len(requested_metrics) : MetricHit(requested_metrics[k], Lower(doc))
    ELSE TRUE

\* Bump that counts every candidate, whether or not it matched a requested dimension
BumpEveryCandidate(flag) == 1

Bump(flag) == IF flag THEN 1 ELSE 0

\* ValidateLoop that stops at the first candidate that meets all requirements
RECURSIVE ValidateLoopUntilStrong(_, _, _, _)
ValidateLoopUntilStrong(details, documents, metadatas, i) ==
    IF i > Len(documents) \/ i > Len(metadatas) \/ details.strong_matches > 0 THEN details
    ELSE LET entity_match == EntityMatch(details.requested_entity, metadatas[i])
             year_match   == YearMatch(details.requested_year, metadatas[i])
             metric_match == MetricMatch(details.requested_metrics, documents[i])
         IN  ValidateLoopUntilStrong(
                 [details EXCEPT
                     !.entity_matches = @ + Bump(Truthy(details.requested_entity) /\ entity_match),
                     !.year_matches   = @ + Bump(Truthy(details.requested_year) /\ year_match),
                     !.metric_matches = @ + Bump(Truthy(details.requested_metrics) /\ metric_match),
                     !.strong_matches = @ + Bump(entity_match /\ year_match /\ metric_match)],
                 documents, metadatas, i + 1)

\* for doc, meta in zip(documents, metadatas): ... validation_details[...] += 1
RECURSIVE ValidateLoop(_, _, _, _)
ValidateLoop(details, documents, metadatas, i) ==
    IF i > Len(documents) \/ i > Len(metadatas) THEN details
    ELSE LET entity_match == EntityMatch(details.requested_entity, metadatas[i])
             year_match   == YearMatch(details.requested_year, metadatas[i])
             metric_match == MetricMatch(details.requested_metrics, documents[i])
         IN  ValidateLoop(
                 [details EXCEPT
                     !.entity_matches = @ + Bump(Truthy(details.requested_entity) /\ entity_match),
                     !.year_matches   = @ + Bump(Truthy(details.requested_year) /\ year_match),
                     !.metric_matches = @ + Bump(Truthy(details.requested_metrics) /\ metric_match),
                     !.strong_matches = @ + Bump(entity_match /\ year_match /\ metric_match)],
                 documents, metadatas, i + 1)

\* str(n) for the small counts that appear in a reason
RECURSIVE StrOfNat(_)
StrOfNat(n) == IF n < 10 THEN <<DigitChars[n + 1]>> ELSE StrOfNat(n \div 10) \o <<DigitChars[(n % 10) + 1]>>

\* Verdict with the entity check moved before the year check
VerdictEntityFirst(d) ==
    IF Truthy(d.requested_entity) /\ d.entity_matches = 0 THEN
        [is_answerable |-> FALSE,
         reason |-> <<"Q", "u", "e", "r", "y", " ", "r", "e", "q", "u", "i", "r", "e", "s",
               " ">> \o d.requested_entity
                    \o <<" ", "d", "a", "t", "a", ",", " ", "b", "u", "t", " ", "r", "e", "t", "r",
                          "i", "e", "v", "e", "d", " ", "d", "o", "c", "u", "m", "e", "n", "t", "s",
                          " ", "a", "r", "e", " ", "f", "o", "r", " ", "d", "i", "f", "f", "e", "r",
                          "e", "n", "t", " ", "e", "n", "t", "i", "t", "i", "e", "s">>]
    ELSE IF Truthy(d.requested_year) /\ d.year_matches = 0 THEN
        [is_answerable |-> FALSE,
         reason |-> <<"Q", "u", "e", "r", "y", " ", "r", "e", "q", "u", "i", "r", "e", "s", " ",
               "F", "Y">> \o SubSeq(d.requested_year, 3, Len(d.requested_year))
                    \o <<" ", "d", "a", "t", "a", ",", " ", "b", "u", "t", " ", "r", "e", "t", "r",
                          "i", "e", "v", "e", "d", " ", "d", "o", "c", "u", "m", "e", "n", "t", "s",
                          " ", "c", "o", "n", "t", "a", "i", "n", " ", "d", "i", "f", "f", "e", "r",
                          "e", "n", "t", " ", "f", "i", "s", "c", "a", "l", " ", "y", "e", "a", "r",
                          "s">>]
    ELSE IF Truthy(d.requested_metrics) /\ d.metric_matches = 0 THEN
        [is_answerable |-> FALSE,
         reason |-> <<"Q", "u", "e", "r", "y", " ", "r", "e", "q", "u", "i", "r", "e", "s",
               " ">> \o Join(<<",", " ">>, d.requested_metrics)
                    \o <<" ", "d", "a", "t", "a", ",", " ", "b", "u", "t", " ", "r", "e", "t", "r",
                          "i", "e", "v", "e", "d", " ", "d", "o", "c", "u", "m", "e", "n", "t", "s",
                          " ", "d", "o", "n", "'", "t", " ", "c", "o", "n", "t", "a", "i", "n", " ",
                          "t", "h", "i", "s", " ", "m", "e", "t", "r", "i", "c">>]
    ELSE IF d.strong_matches > 0 THEN
        [is_answerable |-> TRUE,
         reason |-> <<"F", "o", "u", "n", "d", " ">> \o StrOfNat(d.strong_matches) \o <<" ", "d",
               "o", "c", "u", "m", "e", "n", "t", "(", "s", ")", " ", "m", "a", "t", "c", "h", "i",
               "n", "g", " ", "a", "l", "l", " ", "r", "e", "q", "u", "i", "r", "e", "m", "e", "n",
               "t", "s">>]
    ELSE IF ~Truthy(d.requested_year) /\ ~Truthy(d.requested_entity) /\ ~Truthy(d.requested_metrics) THEN
        [is_answerable |-> TRUE,
         reason |-> <<"G", "e", "n", "e", "r", "a", "l", " ", "q", "u", "e", "r", "y", " ", "w",
               "i", "t", "h", " ", "n", "o", " ", "s", "p", "e", "c", "i", "f", "i", "c", " ", "r",
               "e", "q", "u", "i", "r", "e", "m", "e", "n", "t", "s", " ", "-", " ", "d", "o", "c",
               "u", "m", "e", "n", "t", "s", " ", "a", "r", "e", " ", "r", "e", "l", "e", "v", "a",
               "n", "t">>]
    ELSE
        [is_answerable |-> FALSE,
         reason |-> <<"R", "e", "t", "r", "i", "e", "v", "e", "d", " ", "d", "o", "c", "u", "m",
               "e", "n", "t", "s", " ", "d", "o", "n", "'", "t", " ", "m", "a", "t", "c", "h", " ",
               "q", "u", "e", "r", "y", " ", "r", "e", "q", "u", "i", "r", "e", "m", "e", "n", "t",
               "s">>]

\* the if/elif chain that determines answerability
Verdict(d) ==
    IF Truthy(d.requested_year) /\ d.year_matches = 0 THEN
        [is_answerable |-> FALSE,
         reason |-> <<"Q", "u", "e", "r", "y", " ", "r", "e", "q", "u", "i", "r", "e", "s", " ",
               "F", "Y">> \o SubSeq(d.requested_year, 3, Len(d.requested_year))
                    \o <<" ", "d", "a", "t", "a", ",", " ", "b", "u", "t", " ", "r", "e", "t", "r",
                          "i", "e", "v", "e", "d", " ", "d", "o", "c", "u", "m", "e", "n", "t", "s",
                          " ", "c", "o", "n", "t", "a", "i", "n", " ", "d", "i", "f", "f", "e", "r",
                          "e", "n", "t", " ", "f", "i", "s", "c", "a", "l", " ", "y", "e", "a", "r",
                          "s">>]
    ELSE IF Truthy(d.requested_entity) /\ d.entity_matches = 0 THEN
        [is_answerable |-> FALSE,
         reason |-> <<"Q", "u", "e", "r", "y", " ", "r", "e", "q", "u", "i", "r", "e", "s",
               " ">> \o d.requested_entity
                    \o <<" ", "d", "a", "t", "a", ",", " ", "b", "u", "t", " ", "r", "e", "t", "r",
                          "i", "e", "v", "e", "d", " ", "d", "o", "c", "u", "m", "e", "n", "t", "s",
                          " ", "a", "r", "e", " ", "f", "o", "r", " ", "d", "i", "f", "f", "e", "r",
                          "e", "n", "t", " ", "e", "n", "t", "i", "t", "i", "e", "s">>]
    ELSE IF Truthy(d.requested_metrics) /\ d.metric_matches = 0 THEN
        [is_answerable |-> FALSE,
         reason |-> <<"Q", "u", "e", "r", "y", " ", "r", "e", "q", "u", "i", "r", "e", "s",
               " ">> \o Join(<<",", " ">>, d.requested_metrics)
                    \o <<" ", "d", "a", "t", "a", ",", " ", "b", "u", "t", " ", "r", "e", "t", "r",
                          "i", "e", "v", "e", "d", " ", "d", "o", "c", "u", "m", "e", "n", "t", "s",
                          " ", "d", "o", "n", "'", "t", " ", "c", "o", "n", "t", "a", "i", "n", " ",
                          "t", "h", "i", "s", " ", "m", "e", "t", "r", "i", "c">>]
    ELSE IF d.strong_matches > 0 THEN
        [is_answerable |-> TRUE,
         reason |-> <<"F", "o", "u", "n", "d", " ">> \o StrOfNat(d.strong_matches) \o <<" ", "d",
               "o", "c", "u", "m", "e", "n", "t", "(", "s", ")", " ", "m", "a", "t", "c", "h", "i",
               "n", "g", " ", "a", "l", "l", " ", "r", "e", "q", "u", "i", "r", "e", "m", "e", "n",
               "t", "s">>]
    ELSE IF ~Truthy(d.requested_year) /\ ~Truthy(d.requested_entity) /\ ~Truthy(d.requested_metrics) THEN
        [is_answerable |-> TRUE,
         reason |-> <<"G", "e", "n", "e", "r", "a", "l", " ", "q", "u", "e", "r", "y", " ", "w",
               "i", "t", "h", " ", "n", "o", " ", "s", "p", "e", "c", "i", "f", "i", "c", " ", "r",
               "e", "q", "u", "i", "r", "e", "m", "e", "n", "t", "s", " ", "-", " ", "d", "o", "c",
               "u", "m", "e", "n", "t", "s", " ", "a", "r", "e", " ", "r", "e", "l", "e", "v", "a",
               "n", "t">>]
    ELSE
        [is_answerable |-> FALSE,
         reason |-> <<"R", "e", "t", "r", "i", "e", "v", "e", "d", " ", "d", "o", "c", "u", "m",
               "e", "n", "t", "s", " ", "d", "o", "n", "'", "t", " ", "m", "a", "t", "c", "h", " ",
               "q", "u", "e", "r", "y", " ", "r", "e", "q", "u", "i", "r", "e", "m", "e", "n", "t",
               "s">>]

_validate_answerability(query, documents, metadatas) ==
    IF ~Truthy(documents)
    THEN [is_answerable |-> FALSE, reason |-> <<"N", "o", " ", "d", "o", "c", "u", "m", "e", "n",
          "t", "s", " ", "r", "e", "t", "r", "i", "e", "v", "e", "d">>, validation_details |-> <<>>]
    ELSE LET d == ValidateLoop(
                      [requested_year    |-> _extract_fiscal_year(query),
                       requested_entity  |-> _extract_entity_from_query(query),
                       requested_metrics |-> _extract_metrics_from_query(query),
                       entity_matches |-> 0, year_matches |-> 0,
                       metric_matches |-> 0, strong_matches |-> 0],
                      documents, metadatas, 1)
         IN  [is_answerable |-> Verdict(d).is_answerable,
              reason |-> Verdict(d).reason,
              validation_details |-> d]

(***************************************************************************)
(* Bounds of the model                                                     *)
(***************************************************************************)

\* results taken from one unscoped similarity query (the source asks for n_results = 5)
MaxHits == 2

\* results taken from the year-scoped similarity query (n_results = 5 in the source)
MaxYearHits == 1

\* results taken from the lexical index (top_k = 5 in the source)
MaxLexHits == 1

\* results taken by the report pipeline (n_results = 10 in the source)
MaxReportHits == 1

\* candidates handed to the validator when it is exercised on its own
MaxDocs == 2

\* fragments in a raw input of normalize_user_input
MaxFragments == 3

\* fragments in a query text of _extract_fiscal_year
MaxYearFragments == 4

\* entries in the channel results handed to the merge on its own
MaxYearResults == 1

MaxGeneralResults == 4

MaxLexResults == 1

(***************************************************************************)
(* The corpus: (text, metadata) pairs as ingestion stores them             *)
(***************************************************************************)

OFSS == <<"O", "r", "a", "c", "l", "e", " ", "F", "i", "n", "a", "n", "c", "i", "a", "l", " ", "S",
      "e", "r", "v", "i", "c", "e", "s", " ", "S", "o", "f", "t", "w", "a", "r", "e", " ", "L", "t",
      "d">>

Corpus ==
    << [text |-> <<"R", "e", "v", "e", "n", "u", "e", " ", "5">>,
        meta |-> [company |-> OFSS, fiscal_year |-> <<"F", "Y", "2", "0", "2",
              "3">>, source |-> <<"a", ".", "p", "d", "f">>, page |-> <<"3">>]],
       [text |-> <<"S", "a", "l", "e", "s", " ", "5">>,
        meta |-> [company |-> OFSS, fiscal_year |-> <<"F", "Y", "2", "0", "2",
              "3">>, source |-> <<"b", ".", "x", "l", "s">>]],
       [text |-> <<"R", "e", "v", "e", "n", "u", "e", " ", "4">>,
        meta |-> [company |-> OFSS, fiscal_year |-> <<"F", "Y", "2", "0", "2",
              "1">>, source |-> <<"c", ".", "p", "d", "f">>]],
       [text |-> <<"G", "r", "o", "s", "s", " ", "p", "r", "o", "f", "i", "t", " ", "2">>,
        meta |-> [company |-> <<"O", "r", "a", "c", "l", "e", " ", "F", "i", "n", "a", "n", "c",
              "i", "a", "l">>, fiscal_year |-> <<"f", "y", "2", "0", "2", "3">>, filename |-> <<"d",
              ".", "p", "d", "f">>]],
       [text |-> <<" ", "r", "e", "v", "e", "n", "u", "e", " ", "5">>,
        meta |-> [company |-> <<"I", "n", "f", "o", "s", "y", "s">>, source |-> <<"e", ".", "p",
              "d", "f">>, page |-> <<"7">>]] >>

\* further chunks the validator is exercised on
ExtraChunks ==
    { [text |-> <<"T", "u", "r", "n", "o", "v", "e", "r", " ",
          "9">>, meta |-> [company |-> OFSS, fiscal_year |-> <<"F", "Y", "2", "0", "2", "3", "-",
          "2", "4">>]],
      [text |-> <<"n", "o", "t", "e">>, meta |-> [company |-> <<>>, fiscal_year |-> <<"U", "n", "k",
            "n", "o", "w", "n">>]],
      [text |-> <<"N", "e", "t", " ", "p", "r", "o", "f", "i", "t", " ",
            "1">>, meta |-> [fiscal_year |-> <<"F", "Y", "2", "0", "2", "1">>, source |-> <<"f",
            ".", "p", "d", "f">>]] }

ChunkPool == {Corpus[i] : i \in 1..Len(Corpus)} \cup ExtraChunks

\* the queries: a head, then optionally an entity alias, a metric phrase and a year
QueryHeads == {<<"h", "e", "l", "l", "o">>, <<"r", "e", "p", "o", "r", "t">>}

QueryEntities == {<<>>, <<"o", "f", "s", "s">>, <<"O", "r", "a", "c", "l", "e", " ", "F", "i", "n",
      "a", "n", "c", "i", "a", "l">>}

QueryMetrics == {<<>>, <<"r", "e", "v", "e", "n", "u", "e">>, <<"s", "a", "l", "e", "s">>, <<"g",
      "r", "o", "s", "s", " ", "p", "r", "o", "f", "i", "t">>}

QueryYears == {<<>>, <<"F", "Y", "2", "0", "2", "3">>, <<"2", "0", "2", "1">>}

Queries ==
    { Join(<<" ">>, SelectSeq(<<h, e, m, y>>, LAMBDA part : part # <<>>)) :
        h \in QueryHeads, e \in QueryEntities, m \in QueryMetrics, y \in QueryYears }

\* the sequences without repetition of at least lo and at most hi elements of S
DistinctSeqs(S, lo, hi) ==
    UNION { {f \in [1..k -> S] : \A i, j \in 1..k : i # j => f[i] # f[j]} : k \in lo..hi }

Min(a, b) == IF a < b THEN a ELSE b

Texts(chunks) == [i \in 1..Len(chunks) |-> chunks[i].text]

Metas(chunks) == [i \in 1..Len(chunks) |-> chunks[i].meta]

(***************************************************************************)
(* Hybrid retrieval                                                        *)
(***************************************************************************)

\* one loop of _deduplicate_documents over zip(doc_list, meta_list)
RECURSIVE DedupLoop(_, _, _, _)
DedupLoop(acc, doc_list, meta_list, i) ==
    IF i > Len(doc_list) \/ i > Len(meta_list) THEN acc
    ELSE LET doc_normalized == Lower(Strip(doc_list[i]))
         IN  IF doc_normalized \notin acc.seen_texts
             THEN DedupLoop([seen_texts  |-> acc.seen_texts \cup {doc_normalized},
                             merged_docs  |-> Append(acc.merged_docs, doc_list[i]),
                             merged_metas |-> Append(acc.merged_metas, meta_list[i])],
                            doc_list, meta_list, i + 1)
             ELSE DedupLoop(acc, doc_list, meta_list, i + 1)

_deduplicate_documents(doc_list_1, meta_list_1, doc_list_2, meta_list_2) ==
    LET first  == DedupLoop([seen_texts |-> {}, merged_docs |-> <<>>, merged_metas |-> <<>>],
                            doc_list_1, meta_list_1, 1)
        second == DedupLoop(first, doc_list_2, meta_list_2, 1)
    IN  [docs |-> second.merged_docs, metas |-> second.merged_metas]

\* the general results whose text is not among the year-scoped texts
AdditionalIndexes(year_docs, chroma_docs, chroma_metas) ==
    LET seen_texts == {Lower(Strip(year_docs[k])) : k \in 1..Len(year_docs)}
    IN  SelectSeq([i \in 1..Min(Len(chroma_docs), Len(chroma_metas)) |-> i],
                  LAMBDA i : Lower(Strip(chroma_docs[i])) \notin seen_texts)

\* additional[:3]
FirstThree(seq) == SubSeq(seq, 1, Min(3, Len(seq)))

\* "Combine results: year-specific first, then general (deduplicated)"
CombineYearAndGeneral(year_docs, year_metas, chroma_docs, chroma_metas) ==
    IF Truthy(year_docs)
    THEN LET idx == FirstThree(AdditionalIndexes(year_docs, chroma_docs, chroma_metas))
         IN  [docs  |-> year_docs \o [k \in 1..Len(idx) |-> chroma_docs[idx[k]]],
              metas |-> year_metas \o [k \in 1..Len(idx) |-> chroma_metas[idx[k]]]]
    ELSE [docs |-> chroma_docs, metas |-> chroma_metas]

\* the value _retrieve_documents_hybrid returns once every channel has answered
HybridMerge(year, general, bm25) ==
    LET combined == CombineYearAndGeneral(Texts(year), Metas(year), Texts(general), Metas(general))
    IN  _deduplicate_documents(combined.docs, combined.metas, Texts(bm25), Metas(bm25))

(***************************************************************************)
(* answer_query: the texts it builds                                       *)
(***************************************************************************)

\* one entry of sources
SourceInfo(meta) ==
    Get(meta, "source", Get(meta, "filename", <<"u", "n", "k", "n", "o", "w", "n">>))
    \o (IF Truthy(Get(meta, "page", None)) THEN <<" ", "(", "p", "a", "g", "e",
          " ">> \o meta.page \o <<")">> ELSE <<>>)
    \o (IF Truthy(Get(meta, "fiscal_year", None)) THEN <<" ", "(", "F", "Y", ":",
          " ">> \o meta.fiscal_year \o <<")">> ELSE <<>>)

\* SourcesOf that lists only the metadatas that carry a source
SourcesOfSourced(metadatas) ==
    LET kept == SelectSeq(metadatas, LAMBDA meta : "source" \in DOMAIN meta)
    IN  [i \in 1..Len(kept) |-> SourceInfo(kept[i])]

SourcesOf(metadatas) == [i \in 1..Len(metadatas) |-> SourceInfo(metadatas[i])]

\* one entry of context_parts
ContextPart(doc, meta) ==
    LET meta_info ==
            (IF Truthy(Get(meta, "source", None)) THEN <<"S", "o", "u", "r", "c", "e", ":",
                  " ">> \o meta.source ELSE <<>>)
            \o (IF Truthy(Get(meta, "fiscal_year", None)) THEN <<",", " ", "F", "Y", ":",
                  " ">> \o meta.fiscal_year ELSE <<>>)
            \o (IF Truthy(Get(meta, "page", None)) THEN <<",", " ", "P", "a", "g", "e", ":",
                  " ">> \o meta.page ELSE <<>>)
    IN  IF Truthy(meta_info) THEN <<"[">> \o meta_info \o <<"]", "\n">> \o doc ELSE doc

ContextSeparator == <<"\n", "\n", "-", "-", "-", "\n", "\n">>

\* BuildContext that keeps the best-ranked document only
BuildContextTopOnly(documents, metadatas) ==
    IF Min(Len(documents), Len(metadatas)) >= 1 THEN ContextPart(documents[1], metadatas[1]) ELSE <<>>

BuildContext(documents, metadatas) ==
    Join(ContextSeparator,
         [i \in 1..Min(Len(documents), Len(metadatas)) |-> ContextPart(documents[i], metadatas[i])])

\* the templated RAG_NO_ANSWER text
NoAnswerText(validation_details) ==
    LET requested_year   == Get(validation_details, "requested_year", None)
        requested_entity == Get(validation_details, "requested_entity", None)
        answer_parts ==
            (IF Truthy(requested_year)
             THEN <<<<"F", "Y">> \o SubSeq(requested_year, 3, Len(requested_year)) \o <<" ", "d",
                   "a", "t", "a">>>> ELSE <<>>)
            \o (IF Truthy(requested_entity) THEN <<requested_entity \o <<" ", "d", "a", "t",
                  "a">>>> ELSE <<>>)
    IN  IF Truthy(answer_parts)
        THEN <<"T", "h", "e", " ", "r", "e", "q", "u", "e", "s", "t", "e", "d", " ">> \o Join(<<",",
              " ">>, answer_parts) \o <<" ", "i", "s", " ", "n", "o", "t", " ", "a", "v", "a", "i",
              "l", "a", "b", "l", "e", " ", "i", "n", " ", "t", "h", "e", " ", "d", "o", "c", "u",
              "m", "e", "n", "t", "s", ".">>
        ELSE <<"T", "h", "e", " ", "r", "e", "q", "u", "e", "s", "t", "e", "d", " ", "i", "n", "f",
              "o", "r", "m", "a", "t", "i", "o", "n", " ", "i", "s", " ", "n", "o", "t", " ", "a",
              "v", "a", "i", "l", "a", "b", "l", "e", " ", "i", "n", " ", "t", "h", "e", " ", "d",
              "o", "c", "u", "m", "e", "n", "t", "s", ".">>

OrchestratorApology ==
    <<"I", " ", "a", "p", "o", "l", "o", "g", "i", "z", "e", ",", " ", "b", "u", "t", " ", "I", " ",
          "e", "n", "c", "o", "u", "n", "t", "e", "r", "e", "d", " ", "a", "n", " ", "e", "r", "r",
          "o", "r", " ", "w", "h", "i", "l", "e", " ", "p", "r", "o", "c", "e", "s", "s", "i", "n",
          "g", " ", "y", "o", "u", "r", " ", "q", "u", "e", "r", "y", ".", " ", "P", "l", "e", "a",
          "s", "e", " ", "t", "r", "y", " ", "a", "g", "a", "i", "n", ".">>

ReportApology ==
    <<"I", " ", "a", "p", "o", "l", "o", "g", "i", "z", "e", ",", " ", "b", "u", "t", " ", "I", " ",
          "e", "n", "c", "o", "u", "n", "t", "e", "r", "e", "d", " ", "a", "n", " ", "e", "r", "r",
          "o", "r", " ", "w", "h", "i", "l", "e", " ", "g", "e", "n", "e", "r", "a", "t", "i", "n",
          "g", " ", "t", "h", "e", " ", "r", "e", "p", "o", "r", "t", ".", " ", "P", "l", "e", "a",
          "s", "e", " ", "t", "r", "y", " ", "r", "e", "p", "h", "r", "a", "s", "i", "n", "g", " ",
          "y", "o", "u", "r", " ", "r", "e", "q", "u", "e", "s", "t", ".">>

\* the except clause of answer_query
ApologyResult == [answer |-> OrchestratorApology, answer_type |-> "LLM", sources |-> <<>>]

(***************************************************************************)
(* The report pipeline: the texts it builds                                *)
(***************************************************************************)

\* one numbered item of build_fact_context
FactPart(i, doc, meta) ==
    LET meta_info ==
            (IF Truthy(Get(meta, "source", None)) THEN <<<<"S", "o", "u", "r", "c", "e", ":",
                  " ">> \o meta.source>> ELSE <<>>)
            \o (IF Truthy(Get(meta, "fiscal_year", None)) THEN <<<<"F", "Y", ":",
                  " ">> \o meta.fiscal_year>> ELSE <<>>)
            \o (IF Truthy(Get(meta, "company", None)) THEN <<<<"C", "o", "m", "p", "a", "n", "y",
                  ":", " ">> \o meta.company>> ELSE <<>>)
        meta_str == IF Truthy(meta_info) THEN <<" ", "[">> \o Join(<<",",
              " ">>, meta_info) \o <<"]">> ELSE <<>>
    IN  StrOfNat(i) \o <<".", " ">> \o Strip(doc) \o meta_str

build_fact_context(documents, metadatas) ==
    IF ~Truthy(documents) THEN <<"N", "o", " ", "r", "e", "l", "e", "v", "a", "n", "t", " ", "d",
          "o", "c", "u", "m", "e", "n", "t", "s", " ", "f", "o", "u", "n", "d", ".">>
    ELSE Join(<<"\n", "\n">>,
              [i \in 1..Min(10, Min(Len(documents), Len(metadatas))) |->
                  FactPart(i, documents[i], metadatas[i])])

\* the sources of a report: the source, else the filename, else "unknown"
ReportSources(metadatas) ==
    [i \in 1..Len(metadatas) |-> Get(metadatas[i], "source", Get(metadatas[i], "filename", <<"u",
          "n", "k", "n", "o", "w", "n">>))]

(***************************************************************************)
(* State                                                                   *)
(***************************************************************************)

VARIABLES
    store,              \* the vector-store collaborator: "down", "empty" or "loaded"
    _orchestrator,      \* module-level singleton of langchain_orchestrator.py
    _report_generator,  \* module-level singleton of report_generator.py
    pc,                 \* where the request in progress stands
    entry,              \* the top-level function the request called
    question,           \* its argument
    documents,          \* answer_query: the retrieved documents
    metadatas,          \* answer_query: the retrieved metadatas
    validation,         \* answer_query: what _validate_answerability returned
    calls,              \* the collaborator calls of the request, in order
    result,             \* the record returned to the caller
    v_query,            \* _validate_answerability on its own: the query
    v_documents,        \*   its documents
    v_metadatas,        \*   its metadatas
    v_result,           \*   what it returned
    n_raw_input,        \* normalize_user_input on its own: the raw input
    n_once,             \*   what it returned
    n_twice,            \*   what it returned when applied to that
    x_query,            \* _extract_fiscal_year on its own: the query
    x_fiscal_year,      \*   what it returned
    m_year,             \* the merge of _retrieve_documents_hybrid on its own: year-scoped hits
    m_general,          \*   unscoped semantic hits
    m_bm25,             \*   lexical hits
    m_merged,           \*   what the merge returned
    waiting             \* the requests the server has accepted whose handler has not started

vars ==
    <<store, _orchestrator, _report_generator, pc, entry, question, documents, metadatas,
      validation, calls, result, v_query, v_documents, v_metadatas, v_result,
      n_raw_input, n_once, n_twice, x_query, x_fiscal_year,
      m_year, m_general, m_bm25, m_merged, waiting>>

request_vars == <<entry, question, documents, metadatas, validation, calls, result>>

singleton_vars == <<_orchestrator, _report_generator>>

validator_vars == <<v_query, v_documents, v_metadatas, v_result>>

normalizer_vars == <<n_raw_input, n_once, n_twice>>

extractor_vars == <<x_query, x_fiscal_year>>

merger_vars == <<m_year, m_general, m_bm25, m_merged>>

server_vars == <<waiting>>

\* the variables of the functions that are exercised on their own
function_vars == <<validator_vars, normalizer_vars, extractor_vars, merger_vars>>

\* a module-level Optional[...] that holds None
NoneObject == [is_none |-> TRUE]

NoValidation == [is_answerable |-> FALSE, reason |-> <<>>, validation_details |-> <<>>]

NoResult == [answer |-> <<>>, answer_type |-> "NONE", sources |-> <<>>]

StoreStates == {"down", "empty", "loaded"}

\* the queries that reach the handler
RequestQueries ==
    { q \in Queries : ~Contains(q, <<"O", "r", "a", "c", "l", "e">>) /\ ~Contains(q, <<"g", "r",
          "o", "s", "s">>) /\ ~Contains(q, <<"2", "0", "2", "1">>) }

\* what a generation chain does when invoked: raise, or return a text
GenOutcomes ==
    { [ok |-> FALSE, text |-> <<>>], [ok |-> TRUE, text |-> <<>>], [ok |-> TRUE, text |-> <<"A",
          "n", "s", "w", "e", "r">>] }

\* BM25Index.__init__
BM25Index(docs, metas) ==
    IF ~Truthy(docs)
    THEN [index |-> "None", documents |-> <<>>, metadatas |-> <<>>]
    ELSE [index |-> "BM25Okapi", documents |-> docs, metadatas |-> metas]

CorpusSet == {Corpus[i] : i \in 1..Len(Corpus)}

\* what a similarity query of the collection may return: raise, or ranked hits
QueryOutcomes(candidates, lo, hi) ==
    {[ok |-> FALSE, hits |-> <<>>]}
    \cup (IF store = "loaded"
          THEN {[ok |-> TRUE, hits |-> h] :
                    h \in DistinctSeqs(candidates, Min(lo, Cardinality(candidates)),
                                       Min(hi, Cardinality(candidates)))}
          ELSE IF store = "empty" THEN {[ok |-> TRUE, hits |-> <<>>]}
          ELSE {})

\* collection.query(..., where={"fiscal_year": requested_year})
YearOutcomes(requested_year) ==
    QueryOutcomes({c \in CorpusSet : Get(c.meta, "fiscal_year",
          None) = requested_year}, 0, MaxYearHits)

\* collection.query(...) over the whole collection
GeneralOutcomes == QueryOutcomes(CorpusSet, 1, MaxHits)

\* BM25Index.search: the top_k entries of the snapshot, best score first
SearchOutcomes(bm25_index) ==
    IF bm25_index.index = "None" \/ ~Truthy(bm25_index.documents) THEN {<<>>}
    ELSE LET entries == {[text |-> bm25_index.documents[i], meta |-> bm25_index.metadatas[i]] :
                            i \in 1..Len(bm25_index.documents)}
             top_k == Min(MaxLexHits, Cardinality(entries))
         IN  DistinctSeqs(entries, top_k, top_k)

(***************************************************************************)
(* Initial states                                                          *)
(***************************************************************************)

RequestIdle ==
    /\ pc = "idle"
    /\ entry = "none"
    /\ question = <<>>
    /\ documents = <<>>
    /\ metadatas = <<>>
    /\ validation = NoValidation
    /\ calls = <<>>
    /\ result = NoResult

ValidatorIdle ==
    /\ v_query = <<>>
    /\ v_documents = <<>>
    /\ v_metadatas = <<>>
    /\ v_result = NoValidation

NormalizerIdle ==
    /\ n_raw_input = <<>>
    /\ n_once = None
    /\ n_twice = None

\* marks a result that has not been computed yet, where None is a possible result
NotCalled == <<"NotCalled">>

ExtractorIdle ==
    /\ x_query = <<>>
    /\ x_fiscal_year = NotCalled

\* the merge has not returned yet
NotMerged == [called |-> FALSE]

ServerIdle == waiting = <<>>

MergerIdle ==
    /\ m_year = <<>>
    /\ m_general = <<>>
    /\ m_bm25 = <<>>
    /\ m_merged = NotMerged

Init ==
    /\ store \in StoreStates
    /\ _orchestrator = NoneObject
    /\ _report_generator = NoneObject
    /\ RequestIdle
    /\ ValidatorIdle
    /\ NormalizerIdle
    /\ ExtractorIdle
    /\ MergerIdle
    /\ ServerIdle

(***************************************************************************)
(* The collaborating store                                                 *)
(***************************************************************************)

\* between requests the store goes down, comes back, is emptied or is ingested into
StoreChange ==
    /\ pc = "idle"
    /\ store' \in StoreStates \ {store}
    /\ UNCHANGED <<pc, request_vars, singleton_vars, function_vars, server_vars>>

(***************************************************************************)
(* POST /query: routing to the two top-level functions                     *)
(***************************************************************************)

query_rag(normalized_input) ==
    /\ pc = "idle"
    /\ question' = normalized_input
    /\ IF is_report_request(normalized_input)
       THEN entry' = "generate_report" /\ pc' = "get_report_generator"
       ELSE entry' = "answer_query_simple" /\ pc' = "get_orchestrator"
    /\ UNCHANGED <<store, singleton_vars, documents, metadatas, validation, calls, result,
                   function_vars, server_vars>>

(***************************************************************************)
(* answer_query_simple: get_orchestrator() then answer_query()             *)
(***************************************************************************)

\* get_orchestrator that keeps the instance whose construction failed
get_orchestrator_keeps_failed_instance ==
    /\ pc = "get_orchestrator"
    /\ IF _orchestrator # NoneObject
       THEN pc' = "retrieve" /\ UNCHANGED _orchestrator
       ELSE IF store # "loaded"
            THEN pc' = "raised" /\ _orchestrator' = [bm25_index |-> NoneObject]
            ELSE /\ \E loaded \in BOOLEAN :
                        _orchestrator' =
                            [bm25_index |->
                                IF loaded THEN BM25Index(Texts(Corpus), Metas(Corpus))
                                ELSE NoneObject]
                 /\ pc' = "retrieve"
    /\ UNCHANGED <<store, _report_generator, request_vars, function_vars, server_vars>>

\* get_orchestrator that constructs an orchestrator, and its index, for every request
get_orchestrator_for_every_request ==
    /\ pc = "get_orchestrator"
    /\ IF store # "loaded"
       THEN pc' = "raised" /\ UNCHANGED _orchestrator
       ELSE /\ \E loaded \in BOOLEAN :
                   _orchestrator' =
                       [bm25_index |->
                           IF loaded THEN BM25Index(Texts(Corpus), Metas(Corpus))
                           ELSE NoneObject]
            /\ pc' = "retrieve"
    /\ UNCHANGED <<store, _report_generator, request_vars, function_vars, server_vars>>

\* get_orchestrator: LangChainOrchestrator() is constructed when the singleton is None;
\* get_collection raises when the store is down, __init__ raises when it is empty, and
\* _setup_retrievers leaves bm25_index None when the documents cannot be loaded
get_orchestrator ==
    /\ pc = "get_orchestrator"
    /\ IF _orchestrator # NoneObject
       THEN pc' = "retrieve" /\ UNCHANGED _orchestrator
       ELSE IF store # "loaded"
            THEN pc' = "raised" /\ UNCHANGED _orchestrator
            ELSE /\ \E loaded \in BOOLEAN :
                        _orchestrator' =
                            [bm25_index |->
                                IF loaded THEN BM25Index(Texts(Corpus), Metas(Corpus))
                                ELSE NoneObject]
                 /\ pc' = "retrieve"
    /\ UNCHANGED <<store, _report_generator, request_vars, function_vars, server_vars>>

\* _retrieve_documents_hybrid that gives up when the year-scoped query raises
MergedUnlessAQueryRaises(year, general, bm25) ==
    IF year.ok /\ general.ok THEN HybridMerge(year.hits, general.hits, bm25)
    ELSE [docs |-> <<>>, metas |-> <<>>]

\* _retrieve_documents_hybrid, from the results of the queries to the return value: the
\* year-scoped query that raised left year_docs empty, the unscoped query that raised
\* ends in the outer except clause
MergedOrEmpty(year, general, bm25) ==
    IF general.ok THEN HybridMerge(year.hits, general.hits, bm25)
    ELSE [docs |-> <<>>, metas |-> <<>>]

\* _retrieve_documents_hybrid: embed the question, query the year-scoped channel when a
\* year is requested, always query the whole collection, search the lexical index on
\* numeric intent, merge; any exception outside the year-scoped try returns ([], [])
_retrieve_documents_hybrid ==
    /\ pc = "retrieve"
    /\ LET requested_year == _extract_fiscal_year(question)
           lexical == _detect_numeric_intent(question) /\ _orchestrator.bm25_index # NoneObject
           embed_call(ok) == [op |-> "embed_query", ok |-> ok]
           year_call(year) == [op |-> "query", where |-> requested_year, ok |-> year.ok,
                               output |-> year.hits]
           general_call(general) == [op |-> "query", where |-> None, ok |-> general.ok,
                                     output |-> general.hits]
           search_call(bm25) == [op |-> "bm25_search", ok |-> TRUE, output |-> bm25]
       IN  \/ /\ calls' = calls \o <<embed_call(FALSE)>>
              /\ documents' = <<>>
              /\ metadatas' = <<>>
           \/ \E year \in (IF Truthy(requested_year) THEN YearOutcomes(requested_year)
                           ELSE {[ok |-> TRUE, hits |-> <<>>]}) :
              \E general \in GeneralOutcomes :
              \E bm25 \in (IF lexical /\ general.ok THEN SearchOutcomes(_orchestrator.bm25_index)
                           ELSE {<<>>}) :
                LET merged == MergedOrEmpty(year, general, bm25)
                IN  /\ calls' = calls \o <<embed_call(TRUE)>>
                                \o (IF Truthy(requested_year) THEN <<year_call(year)>> ELSE <<>>)
                                \o <<general_call(general)>>
                                \o (IF lexical /\ general.ok THEN <<search_call(bm25)>> ELSE <<>>)
                    /\ documents' = merged.docs
                    /\ metadatas' = merged.metas
    /\ pc' = "route"
    /\ UNCHANGED <<store, singleton_vars, entry, question, validation, result, function_vars, server_vars>>

\* llm_fallback that validates the empty retrieval before it generates
llm_fallback_validates_first ==
    /\ pc = "route"
    /\ ~Truthy(documents)
    /\ \E out \in GenOutcomes :
        /\ calls' = calls \o <<[op |-> "_validate_answerability", ok |-> TRUE],
                               [op |-> "llm_only_chain", ok |-> out.ok,
                                input |-> [question |-> question], output |-> out.text]>>
        /\ result' = IF out.ok
                     THEN [answer |-> out.text, answer_type |-> "LLM", sources |-> <<>>]
                     ELSE ApologyResult
    /\ pc' = "returned"
    /\ UNCHANGED <<store, singleton_vars, entry, question, documents, metadatas, validation,
                   function_vars, server_vars>>

\* answer_query, STEP 2: no documents, so the LLM-only chain is invoked; an exception
\* ends in the except clause
llm_fallback ==
    /\ pc = "route"
    /\ ~Truthy(documents)
    /\ \E out \in GenOutcomes :
        /\ calls' = Append(calls, [op |-> "llm_only_chain", ok |-> out.ok,
                                   input |-> [question |-> question], output |-> out.text])
        /\ result' = IF out.ok
                     THEN [answer |-> out.text, answer_type |-> "LLM", sources |-> <<>>]
                     ELSE ApologyResult
    /\ pc' = "returned"
    /\ UNCHANGED <<store, singleton_vars, entry, question, documents, metadatas, validation,
                   function_vars, server_vars>>

\* validate that goes back to the routing of the retrieved documents
validate_and_route_again ==
    /\ pc = "route"
    /\ Truthy(documents)
    /\ validation' = _validate_answerability(question, documents, metadatas)
    /\ calls' = Append(calls, [op |-> "_validate_answerability", ok |-> TRUE])
    /\ pc' = "route"
    /\ UNCHANGED <<store, singleton_vars, entry, question, documents, metadatas, result,
                   function_vars, server_vars>>

\* answer_query, STEP 3: documents were retrieved, so they are validated
validate ==
    /\ pc = "route"
    /\ Truthy(documents)
    /\ validation' = _validate_answerability(question, documents, metadatas)
    /\ calls' = Append(calls, [op |-> "_validate_answerability", ok |-> TRUE])
    /\ pc' = "select"
    /\ UNCHANGED <<store, singleton_vars, entry, question, documents, metadatas, result,
                   function_vars, server_vars>>

\* rag_no_answer that falls back to the LLM-only chain instead of refusing
rag_no_answer_falls_back ==
    /\ pc = "select"
    /\ ~validation.is_answerable
    /\ \E out \in GenOutcomes :
        /\ calls' = Append(calls, [op |-> "llm_only_chain", ok |-> out.ok,
                                   input |-> [question |-> question], output |-> out.text])
        /\ result' = IF out.ok
                     THEN [answer |-> out.text, answer_type |-> "LLM", sources |-> <<>>]
                     ELSE ApologyResult
    /\ pc' = "returned"
    /\ UNCHANGED <<store, singleton_vars, entry, question, documents, metadatas, validation,
                   function_vars, server_vars>>

\* answer_query, "if not is_answerable": the templated refusal, no generation
rag_no_answer ==
    /\ pc = "select"
    /\ ~validation.is_answerable
    /\ result' = [answer |-> NoAnswerText(validation.validation_details),
                  answer_type |-> "RAG_NO_ANSWER",
                  sources |-> SourcesOf(metadatas)]
    /\ pc' = "returned"
    /\ UNCHANGED <<store, singleton_vars, entry, question, documents, metadatas, validation,
                   calls, function_vars, server_vars>>

\* answer_query, STEP 4: the RAG chain is invoked on the context of the retrieved
\* documents; an exception ends in the except clause
rag_generate ==
    /\ pc = "select"
    /\ validation.is_answerable
    /\ \E out \in GenOutcomes :
        /\ calls' = Append(calls, [op |-> "rag_chain", ok |-> out.ok,
                                   input |-> [question |-> question,
                                              context |-> BuildContext(documents, metadatas)],
                                   output |-> out.text])
        /\ result' = IF out.ok
                     THEN [answer |-> out.text, answer_type |-> "RAG",
                           sources |-> SourcesOf(metadatas)]
                     ELSE ApologyResult
    /\ pc' = "returned"
    /\ UNCHANGED <<store, singleton_vars, entry, question, documents, metadatas, validation,
                   function_vars, server_vars>>

(***************************************************************************)
(* generate_report: get_report_generator() then ReportGenerator.generate_report() *)
(***************************************************************************)

\* get_report_generator: ReportGenerator() is constructed when the singleton is None;
\* get_collection raises when the store is down
get_report_generator ==
    /\ pc = "get_report_generator"
    /\ IF _report_generator # NoneObject
       THEN pc' = "report" /\ UNCHANGED _report_generator
       ELSE IF store = "down"
            THEN pc' = "raised" /\ UNCHANGED _report_generator
            ELSE _report_generator' = [collection |-> "documents"] /\ pc' = "report"
    /\ UNCHANGED <<store, _orchestrator, request_vars, function_vars, server_vars>>

\* generate_report that gives up with the apology as soon as the retrieval fails
generate_report_gives_up_on_retrieval ==
    /\ pc = "report"
    /\ \E facts \in QueryOutcomes(CorpusSet, 1, MaxReportHits) :
       \E out \in GenOutcomes :
        /\ documents' = Texts(facts.hits)
        /\ metadatas' = Metas(facts.hits)
        /\ calls' = calls \o <<[op |-> "query", where |-> None, ok |-> facts.ok]>>
                    \o (IF facts.ok
                        THEN <<[op |-> "report_chain", ok |-> out.ok,
                                input |-> [query |-> question,
                                           context |-> build_fact_context(Texts(facts.hits),
                                                                          Metas(facts.hits))],
                                output |-> out.text]>>
                        ELSE <<>>)
        /\ result' = IF facts.ok /\ out.ok
                     THEN [answer |-> out.text, answer_type |-> "REPORT",
                           sources |-> IF Truthy(ReportSources(Metas(facts.hits)))
                                       THEN ReportSources(Metas(facts.hits)) ELSE None,
                           format |-> <<"l", "o", "n", "g", "-", "f", "o", "r", "m", "a", "t">>]
                     ELSE [answer |-> ReportApology, answer_type |-> "REPORT",
                           sources |-> None, format |-> <<"e", "r", "r", "o", "r">>]
    /\ pc' = "returned"
    /\ UNCHANGED <<store, singleton_vars, entry, question, validation, function_vars, server_vars>>

\* ReportGenerator.generate_report: _retrieve_facts (([], []) when the query raises),
\* build_fact_context, the report chain; an exception ends in the except clause
generate_report ==
    /\ pc = "report"
    /\ \E facts \in QueryOutcomes(CorpusSet, 1, MaxReportHits) :
       \E out \in GenOutcomes :
        /\ documents' = Texts(facts.hits)
        /\ metadatas' = Metas(facts.hits)
        /\ calls' = calls \o <<[op |-> "query", where |-> None, ok |-> facts.ok],
                               [op |-> "report_chain", ok |-> out.ok,
                                input |-> [query |-> question,
                                           context |-> build_fact_context(Texts(facts.hits),
                                                                          Metas(facts.hits))],
                                output |-> out.text]>>
        /\ result' = IF out.ok
                     THEN [answer |-> out.text, answer_type |-> "REPORT",
                           sources |-> IF Truthy(ReportSources(Metas(facts.hits)))
                                       THEN ReportSources(Metas(facts.hits)) ELSE None,
                           format |-> <<"l", "o", "n", "g", "-", "f", "o", "r", "m", "a", "t">>]
                     ELSE [answer |-> ReportApology, answer_type |-> "REPORT",
                           sources |-> None, format |-> <<"e", "r", "r", "o", "r">>]
    /\ pc' = "returned"
    /\ UNCHANGED <<store, singleton_vars, entry, question, validation, function_vars, server_vars>>

(***************************************************************************)
(* The caller takes the outcome; the next request may start                *)
(***************************************************************************)

finish ==
    /\ pc \in {"returned", "raised"}
    /\ pc' = "idle"
    /\ entry' = "none"
    /\ question' = <<>>
    /\ documents' = <<>>
    /\ metadatas' = <<>>
    /\ validation' = NoValidation
    /\ calls' = <<>>
    /\ result' = NoResult
    /\ UNCHANGED <<store, singleton_vars, function_vars, server_vars>>

Next ==
    \/ StoreChange
    \/ \E q \in RequestQueries : query_rag(q)
    \/ get_orchestrator
    \/ _retrieve_documents_hybrid
    \/ llm_fallback
    \/ validate
    \/ rag_no_answer
    \/ rag_generate
    \/ get_report_generator
    \/ generate_report
    \/ finish

Spec == Init /\ [][Next]_vars

(***************************************************************************)
(* Concurrent requests: the server accepts requests at any time, and the    *)
(* event loop runs the handler query_rag, a coroutine that never awaits,    *)
(* for one of them at a time from its start to its return                   *)
(***************************************************************************)

MaxWaiting == 2

ConcurrentQueries == {<<"h", "e", "l", "l", "o">>, <<"h", "e", "l", "l", "o", " ", "r", "e", "v",
      "e", "n", "u", "e", " ", "F", "Y", "2", "0", "2", "3">>, <<"r", "e", "p", "o", "r", "t">>}

\* POST /query is accepted while the event loop may be busy with another request; the
\* request remembers whether it arrived before the singleton orchestrator existed
post_query(normalized_input) ==
    /\ Len(waiting) < MaxWaiting
    /\ waiting' = Append(waiting, [query |-> normalized_input,
                                   before_singleton |-> _orchestrator = NoneObject])
    /\ UNCHANGED <<store, singleton_vars, pc, request_vars, function_vars>>

\* the event loop starts query_rag for one of the waiting requests
run_query_rag ==
    /\ pc = "idle"
    /\ \E i \in 1..Len(waiting) :
        /\ question' = waiting[i].query
        /\ IF is_report_request(waiting[i].query)
           THEN entry' = "generate_report" /\ pc' = "get_report_generator"
           ELSE entry' = "answer_query_simple" /\ pc' = "get_orchestrator"
        /\ waiting' = SubSeq(waiting, 1, i - 1) \o SubSeq(waiting, i + 1, Len(waiting))
    /\ UNCHANGED <<store, singleton_vars, documents, metadatas, validation, calls, result,
                   function_vars>>

NextConcurrent ==
    \/ StoreChange
    \/ \E q \in ConcurrentQueries : post_query(q)
    \/ run_query_rag
    \/ get_orchestrator
    \/ _retrieve_documents_hybrid
    \/ llm_fallback
    \/ validate
    \/ rag_no_answer
    \/ rag_generate
    \/ get_report_generator
    \/ generate_report
    \/ finish

SpecConcurrent == Init /\ [][NextConcurrent]_vars

(***************************************************************************)
(* _validate_answerability on its own, over every query and candidate list *)
(***************************************************************************)

CandidateLists == UNION {[1..k -> ChunkPool] : k \in 0..MaxDocs}

InitValidate ==
    /\ store = "loaded"
    /\ _orchestrator = NoneObject
    /\ _report_generator = NoneObject
    /\ RequestIdle
    /\ v_query \in Queries
    /\ \E chunks \in CandidateLists :
        /\ v_documents = Texts(chunks)
        /\ v_metadatas = Metas(chunks)
    /\ v_result = NoValidation
    /\ NormalizerIdle
    /\ ExtractorIdle
    /\ MergerIdle
    /\ ServerIdle

call_validate_answerability ==
    /\ v_result = NoValidation
    /\ v_result' = _validate_answerability(v_query, v_documents, v_metadatas)
    /\ UNCHANGED <<store, singleton_vars, pc, request_vars, v_query, v_documents, v_metadatas,
                   normalizer_vars, extractor_vars, merger_vars, server_vars>>

NextValidate == call_validate_answerability

SpecValidate == InitValidate /\ [][NextValidate]_vars

(***************************************************************************)
(* normalize_user_input on its own, over raw inputs made of fragments      *)
(***************************************************************************)

\* the pieces the raw inputs are made of: text, whitespace, control characters and
\* the artifacts that the normalization removes
InputFragments ==
    { <<"x">>, <<" ">>, <<" ", " ", " ">>, <<"\n">>, <<"\n", "\n",
          "\n">>, <<"\t">>, <<";">>, <<Backtick>>, <<"$">>, <<"$", "{", "a", "}">>, <<"{", "b",
          "}">>,
      <<"p", "r", "o">>, <<"m", "p", "t", "=">>, <<"x01">>, <<"x1f">>, <<"l", "e", "t", " ", "y",
            " ", "=", " ", "'">>, <<"c", "o", "n", "s", "o", "l", "e", ".", "l", "o", "g", "(", "z",
            ")">>,
      <<"s", "y", "s", "t", "e", "m", "P", "r", "o", "m", "p", "t", "=">> }

\* the concatenations of n fragments
RECURSIVE Concatenations(_)
Concatenations(n) ==
    IF n = 0 THEN {<<>>}
    ELSE {f \o rest : f \in InputFragments, rest \in Concatenations(n - 1)}

RawInputs == UNION {Concatenations(n) : n \in 0..MaxFragments}

InitNormalize ==
    /\ store = "loaded"
    /\ _orchestrator = NoneObject
    /\ _report_generator = NoneObject
    /\ RequestIdle
    /\ ValidatorIdle
    /\ n_raw_input \in RawInputs
    /\ n_once = None
    /\ n_twice = None
    /\ ExtractorIdle
    /\ MergerIdle
    /\ ServerIdle

call_normalize_user_input ==
    /\ n_once = None
    /\ n_once' = normalize_user_input(n_raw_input)
    /\ UNCHANGED <<store, singleton_vars, pc, request_vars, validator_vars, n_raw_input, n_twice,
                   extractor_vars, merger_vars, server_vars>>

\* the result goes through normalize_user_input once more
call_normalize_user_input_again ==
    /\ n_once # None
    /\ n_twice = None
    /\ n_twice' = normalize_user_input(n_once)
    /\ UNCHANGED <<store, singleton_vars, pc, request_vars, validator_vars, n_raw_input, n_once,
                   extractor_vars, merger_vars, server_vars>>

NextNormalize == call_normalize_user_input \/ call_normalize_user_input_again

SpecNormalize == InitNormalize /\ [][NextNormalize]_vars

(***************************************************************************)
(* _extract_fiscal_year on its own, over query texts made of fragments     *)
(***************************************************************************)

\* the pieces the query texts are made of: the prefixes of the patterns, numbers of
\* four digits inside and outside 1900..2099, and what may stand next to a number
YearFragments ==
    { <<"F", "Y">>, <<"f", "y", " ">>, <<"f", "i", "s", "c", "a", "l", " ", "y", "e", "a", "r",
          " ">>, <<"2", "0", "2", "3">>, <<"1", "9", "9", "9">>, <<"1", "8", "5",
          "0">>, <<"5">>, <<" ">>, <<"x">>, <<"-">> }

\* the concatenations of n fragments
RECURSIVE YearConcatenations(_)
YearConcatenations(n) ==
    IF n = 0 THEN {<<>>}
    ELSE {f \o rest : f \in YearFragments, rest \in YearConcatenations(n - 1)}

YearQueries == UNION {YearConcatenations(n) : n \in 0..MaxYearFragments}

InitExtract ==
    /\ store = "loaded"
    /\ _orchestrator = NoneObject
    /\ _report_generator = NoneObject
    /\ RequestIdle
    /\ ValidatorIdle
    /\ NormalizerIdle
    /\ x_query \in YearQueries
    /\ x_fiscal_year = NotCalled
    /\ MergerIdle
    /\ ServerIdle

call_extract_fiscal_year ==
    /\ x_fiscal_year = NotCalled
    /\ x_fiscal_year' = _extract_fiscal_year(x_query)
    /\ UNCHANGED <<store, singleton_vars, pc, request_vars, validator_vars, normalizer_vars,
                   x_query, merger_vars, server_vars>>

NextExtract == call_extract_fiscal_year

SpecExtract == InitExtract /\ [][NextExtract]_vars

(***************************************************************************)
(* The merge of _retrieve_documents_hybrid on its own, over channel results *)
(***************************************************************************)

\* the chunks the channels return here: the corpus, and a chunk whose text is that of
\* another one but for the whitespace inside it
MergeChunks ==
    CorpusSet \cup {[text |-> <<"R", "e", "v", "e", "n", "u", "e", " ", " ",
          "5">>, meta |-> [company |-> OFSS, source |-> <<"g", ".", "p", "d", "f">>]]}

\* a channel's result: ranked entries, no entry twice
ChannelResults(most) == DistinctSeqs(MergeChunks, 0, most)

InitMerge ==
    /\ store = "loaded"
    /\ _orchestrator = NoneObject
    /\ _report_generator = NoneObject
    /\ RequestIdle
    /\ ValidatorIdle
    /\ NormalizerIdle
    /\ ExtractorIdle
    /\ m_year \in ChannelResults(MaxYearResults)
    /\ m_general \in ChannelResults(MaxGeneralResults)
    /\ m_bm25 \in ChannelResults(MaxLexResults)
    /\ m_merged = NotMerged
    /\ ServerIdle

\* lines 476-501 of _retrieve_documents_hybrid on the three channel results
call_merge ==
    /\ m_merged = NotMerged
    /\ m_merged' = HybridMerge(m_year, m_general, m_bm25)
    /\ UNCHANGED <<store, singleton_vars, pc, request_vars, validator_vars, normalizer_vars,
                   extractor_vars, m_year, m_general, m_bm25,
                   server_vars>>

NextMerge == call_merge

SpecMerge == InitMerge /\ [][NextMerge]_vars

(***************************************************************************)
(* Properties                                                              *)
(***************************************************************************)

\* the calls of the request to one collaborator, in order
CallsTo(op) == SelectSeq(calls, LAMBDA c : c.op = op)

\* a request through answer_query_simple has returned its record
AnswerReturned == pc = "returned" /\ entry = "answer_query_simple"

\* ctx is made of one block per document, in order, each block ending with its
\* document's text and the blocks joined by the separator of the RAG prompt
RECURSIVE ContextCovers(_, _)
ContextCovers(ctx, docs) ==
    IF docs = <<>> THEN ctx = <<>>
    ELSE \E k \in Len(docs[1])..Len(ctx) :
            /\ SubSeq(ctx, k - Len(docs[1]) + 1, k) = docs[1]
            /\ IF Len(docs) = 1 THEN k = Len(ctx)
               ELSE /\ k + Len(ContextSeparator) <= Len(ctx)
                    /\ SubSeq(ctx, k + 1, k + Len(ContextSeparator)) = ContextSeparator
                    /\ ContextCovers(SubSeq(ctx, k + Len(ContextSeparator) + 1, Len(ctx)),
                                     Tail(docs))

IsPrefix(p, s) == Len(p) <= Len(s) /\ SubSeq(s, 1, Len(p)) = p

\* C1: neither answer_query_simple nor generate_report ever raises to its caller,
\* whatever the collaborators do, the lazy construction of the singletons included.
C1_NeverRaises == pc # "raised"

\* C2: every record returned by the Q&A path or the report path has a non-empty
\* answer text, whatever text the generator returns.
C2_AnswerNeverEmpty == pc = "returned" => result.answer # <<>>

\* C3: when the RAG generator raises on the grounded path, the LLM-only generation
\* is attempted next, and the apology is returned only if that attempt fails too.
C3_LlmAttemptedAfterRagFailure ==
    (AnswerReturned /\ \E i \in 1..Len(calls) : calls[i].op = "rag_chain" /\ ~calls[i].ok)
    => /\ \E i, j \in 1..Len(calls) :
            /\ i < j
            /\ calls[i].op = "rag_chain"
            /\ calls[j].op = "llm_only_chain"
       /\ result = ApologyResult => \E j \in 1..Len(calls) :
                                        calls[j].op = "llm_only_chain" /\ ~calls[j].ok

\* C4: when retrieval yields no candidate, the LLM-only chain is invoked once on the
\* question alone, the validator and the RAG chain are not invoked, and when that
\* generation succeeds the record is its output with answer_type LLM and no sources.
C4_NoCandidatesGoesToLlm ==
    (AnswerReturned /\ documents = <<>>)
    => /\ Len(CallsTo("llm_only_chain")) = 1
       /\ CallsTo("llm_only_chain")[1].input = [question |-> question]
       /\ CallsTo("_validate_answerability") = <<>>
       /\ CallsTo("rag_chain") = <<>>
       /\ CallsTo("llm_only_chain")[1].ok
            => result = [answer |-> CallsTo("llm_only_chain")[1].output,
                         answer_type |-> "LLM", sources |-> <<>>]

\* C4 happens: the whole retrieval failed on the unscoped query, and the LLM-only
\* answer came back.
C4_Witness ==
    /\ AnswerReturned
    /\ documents = <<>>
    /\ \E i \in 1..Len(calls) : calls[i].op = "query" /\ ~calls[i].ok
    /\ result.answer_type = "LLM"
    /\ result.answer = <<"A", "n", "s", "w", "e", "r">>

C6_AnswerableGeneratesFromAllCandidates ==
    (AnswerReturned /\ validation.is_answerable)
    => /\ Len(CallsTo("rag_chain")) = 1
       /\ CallsTo("llm_only_chain") = <<>>
       /\ CallsTo("rag_chain")[1].input.question = question
       /\ ContextCovers(CallsTo("rag_chain")[1].input.context, documents)
       /\ CallsTo("rag_chain")[1].ok
            => /\ result.answer_type = "RAG"
               /\ result.answer = CallsTo("rag_chain")[1].output
               /\ result.sources # <<>>
               /\ Len(result.sources) = Len(documents)

\* C6 happens: a grounded answer over candidates of which some are no strong match.
C6_Witness ==
    /\ AnswerReturned
    /\ validation.is_answerable
    /\ result.answer_type = "RAG"
    /\ Len(documents) >= 2
    /\ validation.validation_details.strong_matches < Len(documents)

\* C7: every returned record has one of the four answer types; LLM comes with no
\* sources; RAG and RAG_NO_ANSWER come with one source per retrieved candidate, at
\* least one.
C7_AnswerRecordShape ==
    pc = "returned"
    => /\ result.answer_type \in {"RAG", "RAG_NO_ANSWER", "LLM", "REPORT"}
       /\ result.answer_type = "LLM" => result.sources = <<>>
       /\ result.answer_type \in {"RAG", "RAG_NO_ANSWER"}
            => Len(result.sources) = Len(documents) /\ Len(result.sources) >= 1

\* C7 happens: a grounded record whose candidates include one with no source key.
C7_Witness ==
    /\ AnswerReturned
    /\ result.answer_type \in {"RAG", "RAG_NO_ANSWER"}
    /\ \E i \in 1..Len(metadatas) : "source" \notin DOMAIN metadatas[i]

\* _validate_answerability has been applied to (v_query, v_documents, v_metadatas)
ValidatorCalled == v_result # NoValidation

\* what the query of the validator asks for
YearRequested == Truthy(_extract_fiscal_year(v_query))

EntityRequested == Truthy(_extract_entity_from_query(v_query))

MetricsRequested == Truthy(_extract_metrics_from_query(v_query))

\* C8: _validate_answerability returns the outcome of the first applicable rule, in
\* the order: no candidates; year requested and no year match; entity requested and
\* no entity match; metrics requested and no metric match; a strong match; nothing
\* requested; otherwise the generic refusal.
C8_RulePriority ==
    ValidatorCalled
    => LET d == v_result.validation_details
           answerable == v_result.is_answerable
           reason == v_result.reason
       IN  IF v_documents = <<>> THEN
                ~answerable /\ reason = <<"N", "o", " ", "d", "o", "c", "u", "m", "e", "n", "t",
                      "s", " ", "r", "e", "t", "r", "i", "e", "v", "e", "d">>
           ELSE IF YearRequested /\ d.year_matches = 0 THEN
                ~answerable /\ Contains(reason, <<"c", "o", "n", "t", "a", "i", "n", " ", "d", "i",
                      "f", "f", "e", "r", "e", "n", "t", " ", "f", "i", "s", "c", "a", "l", " ",
                      "y", "e", "a", "r", "s">>)
           ELSE IF EntityRequested /\ d.entity_matches = 0 THEN
                ~answerable /\ Contains(reason, <<"a", "r", "e", " ", "f", "o", "r", " ", "d", "i",
                      "f", "f", "e", "r", "e", "n", "t", " ", "e", "n", "t", "i", "t", "i", "e",
                      "s">>)
           ELSE IF MetricsRequested /\ d.metric_matches = 0 THEN
                ~answerable /\ Contains(reason, <<"d", "o", "n", "'", "t", " ", "c", "o", "n", "t",
                      "a", "i", "n", " ", "t", "h", "i", "s", " ", "m", "e", "t", "r", "i", "c">>)
           ELSE IF d.strong_matches > 0 THEN
                answerable /\ Contains(reason, <<"m", "a", "t", "c", "h", "i", "n", "g", " ", "a",
                      "l", "l", " ", "r", "e", "q", "u", "i", "r", "e", "m", "e", "n", "t", "s">>)
           ELSE IF ~YearRequested /\ ~EntityRequested /\ ~MetricsRequested THEN
                answerable /\ Contains(reason, <<"G", "e", "n", "e", "r", "a", "l", " ", "q", "u",
                      "e", "r", "y", " ", "w", "i", "t", "h", " ", "n", "o", " ", "s", "p", "e",
                      "c", "i", "f", "i", "c", " ", "r", "e", "q", "u", "i", "r", "e", "m", "e",
                      "n", "t", "s">>)
           ELSE ~answerable /\ reason = <<"R", "e", "t", "r", "i", "e", "v", "e", "d", " ", "d",
                 "o", "c", "u", "m", "e", "n", "t", "s", " ", "d", "o", "n", "'", "t", " ", "m",
                 "a", "t", "c", "h", " ", "q", "u", "e", "r", "y", " ", "r", "e", "q", "u", "i",
                 "r", "e", "m", "e", "n", "t", "s">>

\* C8 happens: year, entity and metric all mismatch, and the year reason is the one
\* surfaced.
C8_Witness ==
    /\ ValidatorCalled
    /\ v_documents # <<>>
    /\ YearRequested /\ EntityRequested /\ MetricsRequested
    /\ v_result.validation_details.year_matches = 0
    /\ v_result.validation_details.entity_matches = 0
    /\ v_result.validation_details.metric_matches = 0
    /\ Contains(v_result.reason, <<"c", "o", "n", "t", "a", "i", "n", " ", "d", "i", "f", "f", "e",
          "r", "e", "n", "t", " ", "f", "i", "s", "c", "a", "l", " ", "y", "e", "a", "r", "s">>)

\* the synonym phrases of the requested canonical metrics
RequestedKeywords ==
    UNION { {metric_mapping[k].keywords[j] : j \in 1..Len(metric_mapping[k].keywords)} :
              k \in {k \in 1..Len(metric_mapping) :
                        \E m \in 1..Len(_extract_metrics_from_query(v_query)) :
                            _extract_metrics_from_query(v_query)[m] = metric_mapping[k].key} }

\* candidate i is of the requested entity and of the requested year, and its text
\* mentions a requested metric
FullMatch(i) ==
    /\ YearRequested /\ EntityRequested /\ MetricsRequested
    /\ Contains(Lower(Get(v_metadatas[i], "company", <<>>)),
                Lower(_extract_entity_from_query(v_query)))
    /\ Lower(Get(v_metadatas[i], "fiscal_year", <<>>)) = Lower(_extract_fiscal_year(v_query))
    /\ \E kw \in RequestedKeywords : Contains(Lower(v_documents[i]), kw)

\* C9: a candidate list that holds a chunk of the requested entity and year whose
\* text mentions the requested metric is answerable, and that chunk is counted in
\* strong_matches.
C9_FullMatchIsAnswerable ==
    (ValidatorCalled /\ \E i \in 1..Len(v_documents) : FullMatch(i))
    => /\ v_result.is_answerable
       /\ v_result.validation_details.strong_matches >= 1

\* C10 as stated: a query with no year, entity or metric and a non-empty candidate
\* list is answerable through the general-query rule.
C10_GeneralQueryViaGeneralRule ==
    (ValidatorCalled /\ v_documents # <<>>
        /\ ~YearRequested /\ ~EntityRequested /\ ~MetricsRequested)
    => /\ v_result.is_answerable
       /\ v_result.reason = <<"G", "e", "n", "e", "r", "a", "l", " ", "q", "u", "e", "r", "y", " ",
             "w", "i", "t", "h", " ", "n", "o", " ", "s", "p", "e", "c", "i", "f", "i", "c", " ",
             "r", "e", "q", "u", "i", "r", "e", "m", "e", "n", "t", "s", " ", "-", " ", "d", "o",
             "c", "u", "m", "e", "n", "t", "s", " ", "a", "r", "e", " ", "r", "e", "l", "e", "v",
             "a", "n", "t">>

\* C10 as amended: such a query is always answerable, through the strong-match rule:
\* every candidate counts as a strong match and the reason is the strong-match one.
C10_GeneralQueryViaStrongRule ==
    (ValidatorCalled /\ v_documents # <<>>
        /\ ~YearRequested /\ ~EntityRequested /\ ~MetricsRequested)
    => /\ v_result.is_answerable
       /\ v_result.validation_details.strong_matches = Len(v_documents)
       /\ v_result.reason = <<"F", "o", "u", "n", "d", " ">> \o StrOfNat(Len(v_documents))
                            \o <<" ", "d", "o", "c", "u", "m", "e", "n", "t", "(", "s", ")", " ",
                                  "m", "a", "t", "c", "h", "i", "n", "g", " ", "a", "l", "l", " ",
                                  "r", "e", "q", "u", "i", "r", "e", "m", "e", "n", "t", "s">>

\* C10 happens: a query with no requirement validated against two candidates.
C10_Witness ==
    /\ ValidatorCalled
    /\ Len(v_documents) = 2
    /\ ~YearRequested /\ ~EntityRequested /\ ~MetricsRequested
    /\ v_result.is_answerable

(***************************************************************************)
(* The text of a refusal                                                   *)
(***************************************************************************)

\* the refusal returned for the request in progress
Refused == AnswerReturned /\ result.answer_type = "RAG_NO_ANSWER"

\* the text mentions a requested metric, by its canonical name or by a synonym
NamesRequestedMetric(text, requested_metrics) ==
    \E k \in 1..Len(metric_mapping) :
        /\ \E m \in 1..Len(requested_metrics) : requested_metrics[m] = metric_mapping[k].key
        /\ \/ Contains(Lower(text), metric_mapping[k].key)
           \/ \E j \in 1..Len(metric_mapping[k].keywords) :
                  Contains(Lower(text), metric_mapping[k].keywords[j])

\* C11: a RAG_NO_ANSWER text names the dimensions that are missing and only those:
\* the requested year when no candidate is of that year, the requested metric when
\* the verdict is the metric mismatch, and neither the year nor the entity when some
\* candidate did match it.
C11_RefusalNamesWhatIsMissing ==
    Refused
    => LET d == validation.validation_details
       IN  /\ (Truthy(d.requested_year) /\ d.year_matches = 0)
                => Contains(result.answer, d.requested_year)
           /\ (Truthy(d.requested_metrics) /\ d.metric_matches = 0
                 /\ ~(Truthy(d.requested_year) /\ d.year_matches = 0)
                 /\ ~(Truthy(d.requested_entity) /\ d.entity_matches = 0))
                => NamesRequestedMetric(result.answer, d.requested_metrics)
           /\ (Truthy(d.requested_year) /\ d.year_matches > 0)
                => ~Contains(result.answer, d.requested_year)
           /\ (Truthy(d.requested_entity) /\ d.entity_matches > 0)
                => ~Contains(result.answer, d.requested_entity)

(***************************************************************************)
(* A query against an empty collection                                     *)
(***************************************************************************)

\* C12: with an empty collection a question through answer_query_simple ends in a
\* returned LLM record with no sources and a non-empty answer; it never ends in an
\* exception.
C12_EmptyStoreAnswersFromLlm ==
    (entry = "answer_query_simple" /\ store = "empty" /\ pc \in {"returned", "raised"})
    => /\ pc = "returned"
       /\ result.answer_type = "LLM"
       /\ result.sources = <<>>
       /\ result.answer # <<>>

(***************************************************************************)
(* Routing by intent                                                       *)
(***************************************************************************)

\* the handler has the outcome of the request: a record to answer with, or an exception
\* that it turns into HTTP 500
Handled == pc \in {"returned", "raised"}

\* the collaborators of the Q&A orchestrator
OrchestratorOps ==
    {"embed_query", "bm25_search", "_validate_answerability", "rag_chain", "llm_only_chain"}

\* the routing of the requests that come back with a record: REPORT exactly for the
\* report intent, and each intent uses the collaborators of its own pipeline only
RoutedByIntent ==
    pc = "returned"
    => /\ result.answer_type = "REPORT" <=> is_report_request(question)
       /\ is_report_request(question)
            => /\ entry = "generate_report"
               /\ \A i \in 1..Len(calls) : calls[i].op \notin OrchestratorOps
       /\ ~is_report_request(question)
            => /\ entry = "answer_query_simple"
               /\ CallsTo("report_chain") = <<>>
               /\ result.answer_type \in {"RAG", "RAG_NO_ANSWER", "LLM"}

\* C13: every accepted request ends with an answer type, REPORT exactly when the
\* normalized input has the report intent (also when the report generation fails),
\* RAG, RAG_NO_ANSWER or LLM otherwise, and a report request never reaches the Q&A
\* orchestrator.
C13_ReportIffReportIntent ==
    Handled => pc = "returned" /\ RoutedByIntent

(***************************************************************************)
(* Failures inside the report pipeline                                     *)
(***************************************************************************)

\* a request through generate_report has returned its record
ReportReturned == pc = "returned" /\ entry = "generate_report"

Normalized == n_once # None

\* C15: for every non-empty raw input, whitespace-only and control-character-only
\* inputs included, normalize_user_input returns a non-empty string.
C15_NormalizedNeverEmpty ==
    (Normalized /\ n_raw_input # <<>>) => n_once # <<>>

\* C16: normalize_user_input is idempotent: applied to its own result it returns that
\* result.
C16_NormalizeIdempotent ==
    n_twice # None => n_twice = n_once

(***************************************************************************)
(* Properties of _extract_fiscal_year                                      *)
(***************************************************************************)

\* _extract_fiscal_year has returned for the query
YearExtracted == x_fiscal_year # NotCalled

\* where the query holds a year token: four digits starting with 19 or 20, with no
\* digit before and no digit after
YearTokens(s) ==
    {i \in 1..(Len(s) - 3) :
        /\ Digits4At(s, i)
        /\ SubSeq(s, i, i + 1) \in {<<"1", "9">>, <<"2", "0">>}
        /\ (i = 1 \/ ~IsDigit(s[i - 1]))
        /\ (i + 4 > Len(s) \/ ~IsDigit(s[i + 4]))}

\* some pattern of _extract_fiscal_year matches somewhere in the query
SomePatternMatches(s) ==
    \E i \in 1..Len(s) :
        \/ FyPatternGroup(s, i) # 0
        \/ FiscalYearPatternGroup(s, i) # 0
        \/ BareYearPatternGroup(s, i, <<"2", "0">>) # 0
        \/ BareYearPatternGroup(s, i, <<"1", "9">>) # 0

\* C17: a query that holds a four-digit year token of 1900..2099, not adjacent to
\* other digits, gives FY followed by such a token of the query; the result is None
\* only when no pattern matches.
C17_YearTokenRecovered ==
    YearExtracted
    => /\ YearTokens(x_query) # {}
            => \E i \in YearTokens(x_query) :
                   x_fiscal_year = <<"F", "Y">> \o SubSeq(x_query, i, i + 3)
       /\ x_fiscal_year = None => ~SomePatternMatches(x_query)

(***************************************************************************)
(* The three match predicates of the validator                             *)
(***************************************************************************)

\* the validator has returned for a non-empty candidate list: the counts are there
Counted == ValidatorCalled /\ v_documents # <<>>

\* candidate i has a company, and it contains the requested entity or the requested
\* entity contains it, ignoring case
EntityMatchesEitherWay(i) ==
    LET company == Lower(Get(v_metadatas[i], "company", <<>>))
        entity  == Lower(_extract_entity_from_query(v_query))
    IN  /\ company # <<>>
        /\ Contains(company, entity) \/ Contains(entity, company)

\* C18: when an entity is requested, the chunks counted as entity matches are those
\* whose company contains the requested entity or is contained in it, ignoring case;
\* a chunk with an empty or missing company is not counted.
C18_EntityMatchEitherDirection ==
    (Counted /\ EntityRequested)
    => v_result.validation_details.entity_matches
         = Cardinality({i \in 1..Len(v_documents) : EntityMatchesEitherWay(i)})

\* candidate i mentions a requested metric by one of its synonym phrases
MentionsRequestedMetric(i) ==
    \E kw \in RequestedKeywords : Contains(Lower(v_documents[i]), kw)

\* C19: when metrics are requested, the chunks counted as metric matches are exactly
\* those whose text contains a synonym phrase of a requested metric, by the synonym
\* table of the query extraction.
C19_MetricMatchBySynonyms ==
    (Counted /\ MetricsRequested)
    => v_result.validation_details.metric_matches
         = Cardinality({i \in 1..Len(v_documents) : MentionsRequestedMetric(i)})

\* candidate i has a fiscal_year and it equals the requested year, ignoring case
YearEquals(i) ==
    /\ "fiscal_year" \in DOMAIN v_metadatas[i]
    /\ v_metadatas[i].fiscal_year # <<>>
    /\ Lower(v_metadatas[i].fiscal_year) = Lower(_extract_fiscal_year(v_query))

\* C20: when a year is requested, the chunks counted as year matches are exactly those
\* whose fiscal_year is present and equals the requested FY token ignoring case, so
\* that the verdict is answerable only if some candidate is of the requested year.
C20_YearMatchIsExact ==
    (Counted /\ YearRequested)
    => /\ v_result.validation_details.year_matches
            = Cardinality({i \in 1..Len(v_documents) : YearEquals(i)})
       /\ v_result.is_answerable => \E i \in 1..Len(v_documents) : YearEquals(i)

\* C20 happens: FY2023 is requested, one candidate is of "fy2023" and the other of
\* "FY2023-24"; only the first is counted, and the verdict is answerable on it.
C20_Witness ==
    /\ Counted
    /\ _extract_fiscal_year(v_query) = <<"F", "Y", "2", "0", "2", "3">>
    /\ Len(v_documents) = 2
    /\ Get(v_metadatas[1], "fiscal_year", <<>>) = <<"F", "Y", "2", "0", "2", "3", "-", "2", "4">>
    /\ Get(v_metadatas[2], "fiscal_year", <<>>) = <<"f", "y", "2", "0", "2", "3">>
    /\ v_result.validation_details.year_matches = 1
    /\ v_result.is_answerable

(***************************************************************************)
(* The validator over a candidate set                                      *)
(***************************************************************************)

\* the orders in which n candidates can be handed over
Orders(n) == {p \in [1..n -> 1..n] : \A i, j \in 1..n : p[i] = p[j] => i = j}

\* C21: the verdict does not depend on the order of the candidates: for the query,
\* every permutation of the same (chunk, metadata) pairs gives the same answerable
\* flag, the same reason and the same four counts, and calling again on the same
\* arguments gives the same result.
C21_ValidatorOrderIndependent ==
    ValidatorCalled
    => /\ _validate_answerability(v_query, v_documents, v_metadatas) = v_result
       /\ \A p \in Orders(Len(v_documents)) :
            _validate_answerability(v_query,
                                    [i \in 1..Len(v_documents) |-> v_documents[p[i]]],
                                    [i \in 1..Len(v_documents) |-> v_metadatas[p[i]]]) = v_result

\* C21 happens: two different candidates, the first meets all requirements of a query
\* with a year and the second does not.
C21_Witness ==
    /\ Counted
    /\ YearRequested
    /\ Len(v_documents) = 2
    /\ v_documents[1] # v_documents[2]
    /\ v_result.validation_details.strong_matches = 1
    /\ YearEquals(1) /\ ~YearEquals(2)
    /\ v_result.validation_details.entity_matches + v_result.validation_details.metric_matches >= 2

(***************************************************************************)
(* Properties of the merge                                                 *)
(***************************************************************************)

\* the merge has returned
Merged == m_merged # NotMerged

\* the text as _deduplicate_documents compares it
DedupKey(text) == Lower(Strip(text))

\* the entries of the three channels one after the other, as (text, meta) pairs
ChannelsInOrder == m_year \o m_general \o m_bm25

\* the merged list as (text, meta) pairs
MergedPairs ==
    [i \in 1..Len(m_merged.docs) |-> [text |-> m_merged.docs[i], meta |-> m_merged.metas[i]]]

\* the first occurrences of ChannelsInOrder: every entry whose text, as compared by
\* the deduplication, did not occur earlier in the list
FirstOccurrences ==
    SelectSeq([i \in 1..Len(ChannelsInOrder) |-> i],
              LAMBDA i : \A j \in 1..(i - 1) :
                            DedupKey(ChannelsInOrder[j].text) # DedupKey(ChannelsInOrder[i].text))

\* C22: the merged list is the year-scoped results, then the unscoped results, then
\* the lexical results, less the entries whose text duplicates an earlier entry and
\* nothing else: order is kept and every channel result is there, itself or as an
\* earlier duplicate.
C22_MergeKeepsEveryResult ==
    Merged
    => MergedPairs = [k \in 1..Len(FirstOccurrences) |-> ChannelsInOrder[FirstOccurrences[k]]]

\* the text with its case folded and its whitespace left out
IgnoringCaseAndWhitespace(text) == SelectSeq(Lower(text), LAMBDA c : ~IsSpace(c))

\* C23: the merged list never holds two entries whose texts are equal ignoring case
\* and whitespace, whatever the three channels returned.
C23_NoDuplicateTexts ==
    Merged
    => \A i, j \in 1..Len(m_merged.docs) :
          i # j => IgnoringCaseAndWhitespace(m_merged.docs[i])
                     # IgnoringCaseAndWhitespace(m_merged.docs[j])

(***************************************************************************)
(* Retrieval channels                                                      *)
(***************************************************************************)

\* the queries of the collection restricted to a fiscal year, in the order issued
YearScopedCalls == SelectSeq(calls, LAMBDA c : c.op = "query" /\ c.where # None)

\* the queries of the whole collection, in the order issued
UnscopedCalls == SelectSeq(calls, LAMBDA c : c.op = "query" /\ c.where = None)

\* the year-scoped query of the running request raised
YearScopedQueryRaised ==
    /\ entry = "answer_query_simple"
    /\ Len(YearScopedCalls) > 0
    /\ ~YearScopedCalls[1].ok

\* what the lexical search of the running request returned, nothing when not issued
LexicalOutput ==
    IF Len(CallsTo("bm25_search")) > 0 THEN CallsTo("bm25_search")[1].output ELSE <<>>

\* C24: when the year-scoped query raises, the unscoped query is still issued, the
\* retrieval returns what it returns when the year-scoped query finds nothing, and the
\* request goes on to its answer
C24_YearScopedFailureIsSurvived ==
    YearScopedQueryRaised =>
        /\ pc \in {"route", "select", "returned"}
        /\ Len(UnscopedCalls) = 1
        /\ LET general == [ok |-> UnscopedCalls[1].ok, hits |-> UnscopedCalls[1].output]
               expected == MergedOrEmpty([ok |-> TRUE, hits |-> <<>>], general, LexicalOutput)
           IN  pc \in {"route", "select"} =>
                    documents = expected.docs /\ metadatas = expected.metas

\* the year-scoped query raised and the unscoped results were returned by the retrieval
C24_Witness ==
    /\ YearScopedQueryRaised
    /\ pc = "route"
    /\ UnscopedCalls[1].ok
    /\ Len(documents) >= 2

\* what a channel contributes: the output of its query, nothing when it raised or was
\* not issued
Contribution(channel_calls) ==
    IF Len(channel_calls) > 0 /\ channel_calls[1].ok THEN channel_calls[1].output ELSE <<>>

\* C25: a channel that raises contributes nothing and the results of the other channels
\* are still merged and returned by the retrieval
C25_ChannelsFailIndependently ==
    (entry = "answer_query_simple" /\ pc \in {"route", "select"} /\ Len(UnscopedCalls) = 1) =>
        LET expected == HybridMerge(Contribution(YearScopedCalls), Contribution(UnscopedCalls),
                                    LexicalOutput)
        IN  documents = expected.docs /\ metadatas = expected.metas

\* the retrieval of the running request has returned after embedding the question
RetrievedPastEmbedding ==
    /\ entry = "answer_query_simple"
    /\ pc \in {"route", "select", "returned"}
    /\ Len(CallsTo("embed_query")) = 1
    /\ CallsTo("embed_query")[1].ok

\* how often an operation is issued that is issued exactly when wanted holds
OnceIff(wanted) == IF wanted THEN 1 ELSE 0

\* C26: a retrieval past the embedding issues the unscoped query exactly once, the
\* year-scoped query exactly when a fiscal year is extracted and then before the unscoped
\* one, and the lexical search exactly when numeric intent is detected and the lexical
\* index exists
C26_ChannelCallPattern ==
    RetrievedPastEmbedding =>
        /\ Len(UnscopedCalls) = 1
        /\ Len(YearScopedCalls) = OnceIff(Truthy(_extract_fiscal_year(question)))
        /\ \A i, j \in 1..Len(calls) :
                (calls[i].op = "query" /\ calls[j].op = "query"
                    /\ calls[i].where # None /\ calls[j].where = None) => i < j
        /\ Len(CallsTo("bm25_search")) =
                OnceIff(_detect_numeric_intent(question) /\ _orchestrator.bm25_index # NoneObject)

(***************************************************************************)
(* Order of the steps of one request                                       *)
(***************************************************************************)

\* the place of a call among the steps of answer_query: retrieve, validate, generate
StepOfCall(c) ==
    IF c.op \in {"embed_query", "query", "bm25_search"} THEN 1
    ELSE IF c.op = "_validate_answerability" THEN 2
    ELSE 3

\* the place of a position of the request among its steps
StepOfPosition(position) ==
    CASE position = "idle" -> 0
      [] position \in {"get_orchestrator", "get_report_generator"} -> 1
      [] position \in {"retrieve", "report"} -> 2
      [] position = "route" -> 3
      [] position = "select" -> 4
      [] position \in {"returned", "raised"} -> 5

\* the calls made so far by a question-answering request are in the order of the steps,
\* each step at most once, the validation only of a non-empty retrieval
StepsInOrder ==
    entry = "answer_query_simple" =>
        /\ \A i, j \in 1..Len(calls) : i < j => StepOfCall(calls[i]) <= StepOfCall(calls[j])
        /\ Len(CallsTo("embed_query")) <= 1
        /\ Len(CallsTo("_validate_answerability")) <= 1
        /\ Len(CallsTo("rag_chain")) + Len(CallsTo("llm_only_chain")) <= 1
        /\ StepOfPosition(pc) <= 2 => calls = <<>>
        /\ pc = "route" => \A i \in 1..Len(calls) : StepOfCall(calls[i]) = 1
        /\ \A i \in 1..Len(calls) :
                StepOfCall(calls[i]) > 1 => calls[1].op = "embed_query" /\ i > 1
        /\ Len(CallsTo("_validate_answerability")) = 1 => Truthy(documents)

\* every step of a request moves it forward, and only the end of the request takes it
\* back to the start
StepForward ==
    pc' # pc => (StepOfPosition(pc') > StepOfPosition(pc) \/ (StepOfPosition(pc) = 5 /\ pc' = "idle"))

\* C27: within one request the steps run in the order normalize and classify, retrieve,
\* validate, select and generate; no generator call precedes the return of the retrieval,
\* the validation follows a non-empty retrieval, no step runs twice and none runs after
\* a later one
C27_StrictStepOrder == [](StepsInOrder) /\ [][StepForward]_vars

\* a request has retrieved, validated and generated from the retrieved context
C27_Witness ==
    /\ AnswerReturned
    /\ Len(CallsTo("_validate_answerability")) = 1
    /\ Len(CallsTo("rag_chain")) = 1
    /\ Len(UnscopedCalls) = 1

(***************************************************************************)
(* The singleton orchestrator and its lexical index                        *)
(***************************************************************************)

\* a step constructs the orchestrator, and with it the lexical index
Constructs == _orchestrator' # _orchestrator

\* the singleton is constructed only while there is none, from the one snapshot of the
\* corpus, and once it exists no step replaces it or changes its index
ConstructedOnce ==
    Constructs =>
        /\ _orchestrator = NoneObject
        /\ _orchestrator'.bm25_index \in {NoneObject, BM25Index(Texts(Corpus), Metas(Corpus))}

\* every result of a lexical search is an entry of the index of the singleton, and every
\* retrieved chunk carries the metadata it has in the corpus
SharedIndexIsRead ==
    (entry = "answer_query_simple" /\ calls # <<>>) =>
        /\ \A k \in 1..Len(LexicalOutput) :
            \E i \in 1..Len(_orchestrator.bm25_index.documents) :
                /\ _orchestrator.bm25_index.documents[i] = LexicalOutput[k].text
                /\ _orchestrator.bm25_index.metadatas[i] = LexicalOutput[k].meta
        /\ Len(CallsTo("bm25_search")) > 0 =>
                _orchestrator.bm25_index = BM25Index(Texts(Corpus), Metas(Corpus))
        /\ Len(documents) = Len(metadatas)
        /\ \A i \in 1..Len(documents) :
                [text |-> documents[i], meta |-> metadatas[i]] \in CorpusSet

GetsOrchestrator == pc = "get_orchestrator" /\ pc' # pc

\* get_orchestrator without a singleton attempts the construction: it fails, leaving
\* the singleton unset, exactly when the store is down or empty
AttemptsWhileUnset ==
    (GetsOrchestrator /\ _orchestrator = NoneObject) =>
        IF store = "loaded"
        THEN pc' = "retrieve" /\ _orchestrator' # NoneObject
        ELSE pc' = "raised" /\ _orchestrator' = NoneObject

\* get_orchestrator with a singleton returns it whatever the state of the store, and no
\* step ever replaces it
ServesOnceSet ==
    _orchestrator # NoneObject =>
        /\ _orchestrator' = _orchestrator
        /\ GetsOrchestrator => pc' = "retrieve"

\* a request that raised in answer_query_simple left no singleton behind it, and a
\* request past get_orchestrator has one
SingletonFollowsOutcome ==
    entry = "answer_query_simple" =>
        /\ pc = "raised" => _orchestrator = NoneObject
        /\ pc \in {"retrieve", "route", "select", "returned"} => _orchestrator # NoneObject

\* C29: a failed construction leaves the singleton unset and every later call attempts
\* the construction again; after a successful construction the same instance, with its
\* lexical snapshot, serves every later call and nothing is constructed again
C29_ConstructionRetriedUntilSuccess ==
    [](SingletonFollowsOutcome) /\ [][AttemptsWhileUnset /\ ServesOnceSet]_vars

\* the construction failed on an empty collection and the singleton is unset
C29_Witness ==
    /\ entry = "answer_query_simple"
    /\ pc = "raised"
    /\ store = "empty"
    /\ _orchestrator = NoneObject

(***************************************************************************)
(* The counts of _validate_answerability                                   *)
(***************************************************************************)

\* a count of a dimension is within the number of candidates, is at least the number of
\* strong matches when the dimension is requested, and is zero when it is not
CountWithinBounds(requested, matches) ==
    /\ matches \in 0..Len(v_documents)
    /\ requested => v_result.validation_details.strong_matches <= matches
    /\ ~requested => matches = 0

\* C30: for N candidates the counts satisfy 0 <= strong_matches <= N and, for each of
\* entity, year and metric, 0 <= matches <= N, strong_matches <= matches when the
\* dimension is requested and matches = 0 when it is not
C30_CountBounds ==
    Counted =>
        /\ v_result.validation_details.strong_matches \in 0..Len(v_documents)
        /\ CountWithinBounds(EntityRequested, v_result.validation_details.entity_matches)
        /\ CountWithinBounds(YearRequested, v_result.validation_details.year_matches)
        /\ CountWithinBounds(MetricsRequested, v_result.validation_details.metric_matches)

\* two candidates that mention the metric, one of them of the year, counted for a
\* query that requests a year and a metric but no entity
C30_Witness ==
    /\ Counted
    /\ Len(v_documents) = 2
    /\ YearRequested /\ MetricsRequested /\ ~EntityRequested
    /\ v_result.validation_details.strong_matches = 1
    /\ v_result.validation_details.metric_matches = 2
    /\ v_result.validation_details.entity_matches = 0

====
